---- MODULE Spec2Model ----
(***************************************************************************)
(* Model of the ensemble ORM: the query builder of query.rs (clause model  *)
(* and SQL rendering), the relationship resolver of relationships/*.rs,    *)
(* the eager-loading loop of Builder::get and the single-record mutations  *)
(* of the Model trait.                                                     *)
(*                                                                         *)
(* SQL text is a sequence of string tokens whose concatenation is the      *)
(* rendered string; blanks are tokens of their own (" ").                  *)
(***************************************************************************)
EXTENDS Integers, Sequences, FiniteSets, TLC

\* ------------------------------------------------------------------------
\* Bounds of the model
\* ------------------------------------------------------------------------
MaxClauses == 4
MaxDepth == 2
MaxSent == 1
MaxMatchRows == 2
MaxMutations == 2
MaxTermClauses == 1
MaxJoins == 1
MaxOrders == 1

\* ------------------------------------------------------------------------
\* Generic helpers
\* ------------------------------------------------------------------------
None == [some |-> FALSE]
Some(x) == [some |-> TRUE, v |-> x]

RECURSIVE Concat(_)
\* Concatenation of a sequence of sequences (String::push_str in a loop, flat_map).
Concat(ss) == IF ss = <<>> THEN <<>> ELSE Head(ss) \o Concat(Tail(ss))

RECURSIVE JoinWith(_, _)
\* itertools::join: the items separated by sep.
JoinWith(ss, sep) ==
    IF ss = <<>> THEN <<>>
    ELSE IF Len(ss) = 1 THEN Head(ss)
    ELSE Head(ss) \o sep \o JoinWith(Tail(ss), sep)

\* ------------------------------------------------------------------------
\* Database values (rbs::Value) and the serializer of value.rs
\* ------------------------------------------------------------------------
\* Rust-side inputs: [ty |-> <rust type>, v |-> <payload as text>] or
\* [ty |-> "vec", items |-> <<inputs>>] or [ty |-> "none"].
Null == [t |-> "Null", v |-> "null"]
Scalar(t, v) == [t |-> t, v |-> v]
Array(items) == [t |-> "Array", items |-> items]

RECURSIVE for_db(_)
for_db(x) ==
    CASE x.ty \in {"i8", "i16", "i32"} -> Scalar("I32", x.v)
      [] x.ty = "i64" -> Scalar("I64", x.v)
      [] x.ty \in {"u8", "u16", "u32"} -> Scalar("U32", x.v)
      [] x.ty = "u64" -> Scalar("U64", x.v)
      [] x.ty = "str" -> Scalar("String", x.v)
      [] x.ty = "none" -> Null
      [] x.ty = "vec" -> Array([i \in 1..Len(x.items) |-> for_db(x.items[i])])

\* rbs::Value::as_array: the elements of an Array, nothing for any other value.
as_array(v) == IF v.t = "Array" THEN Some(v.items) ELSE None

\* ------------------------------------------------------------------------
\* Clause model of query.rs
\* ------------------------------------------------------------------------
VARIABLES
    stack,      \* query.rs builders under construction: the top-level one, then one per running where_group callback
    dialect,    \* connection::which_db()
    panicked,   \* an assert! / panic! ended the program
    db,         \* the database: table name -> rows in storage order
    pool,       \* DB_POOL: "uninit" or "ready"
    sent,       \* the statements handed to the driver, in order
    rel,        \* one relationship instance of a loaded model
    last,       \* the relationship operation that ran last and its outcome
    pc,         \* position of a running Builder::get
    gq,         \* the builder Builder::get was called on
    models,     \* the models decoded by Builder::get
    remaining,  \* the requested relations Builder::get has not loaded yet
    gres,       \* the result of Builder::get
    self,       \* the model instance a mutation is called on
    mres,       \* the mutation that ran last, the count the driver reported and the result
    term,       \* the terminal builder method that ran last and its result
    alive,      \* the caller still owns the builder (no method has taken it by value and kept it)
    bridgeIn,   \* the Rust value handed to the value bridge, with its type
    bridgeDb,   \* the outcome of value::for_db on it, once computed
    bridgeBack, \* the outcome of decoding that database value, once computed
    bridgeJson, \* the outcome of Model::json on it, once computed
    rendered, \* the outcome of rendering the builder twice in a row, once done
    grouped, \* the builder the callback of the last where_group call returned, and the parent it was called on
    mig,  \* the Migrator and the position of its run or rollback
    slot,  \* MIGRATE_CONN: the connection parked for Schema, if any
    mdb,  \* the migrations table: committed rows, rows as the open transaction sees them, and whether a transaction is open
    log,  \* the statements the migrator issued and the up()/down() calls it made, in order
    made, \* the number of migrators created so far
    creation, \* the outcome of the last Model::create call: the steps it went through, its result and the statements it sent
    sch  \* Schema::get_schema in flight: the calling thread, the collector thread and the channel between them

dbVars == <<db, pool, sent>>
relVars == <<rel, last>>
getVars == <<pc, gq, models, remaining, gres>>
mutVars == <<self, mres>>
termVars == <<term, alive>>
bridgeVars == <<bridgeIn, bridgeDb, bridgeBack, bridgeJson>>
pureVars == <<rendered>>
groupVars == <<grouped>>
migVars == <<mig, slot, mdb, log, made>>
createVars == <<creation>>
schemaVars == <<sch>>
vars == <<stack, dialect, panicked, db, pool, sent, rel, last, pc, gq, models, remaining, gres, self, mres, term, alive,
         bridgeIn, bridgeDb, bridgeBack, bridgeJson,
         rendered,
         grouped,
         mig, slot, mdb, log, made,
         creation,
         sch>>

Dialects == {"MySQL", "PostgreSQL"}

\* Columns::escape
\* The quote characters are written as the tokens "BACKTICK" and "DQUOTE".
escape(column) ==
    IF dialect = "MySQL" THEN <<"BACKTICK", column, "BACKTICK">>
    ELSE <<"DQUOTE", column, "DQUOTE">>

\* Builder::new
new(table) ==
    [table |-> table, join |-> <<>>, order |-> <<>>, limit |-> None,
     offset |-> None, where |-> <<>>, eager_load |-> {}]

Simple(column, boolean, operator, value) ==
    [kind |-> "Simple", column |-> column, boolean |-> boolean,
     operator |-> operator, value |-> value]

Group(clauses, boolean) == [kind |-> "Group", clauses |-> clauses, boolean |-> boolean]

\* Operator::from(&str) followed by Display for Operator
OperatorText(op) ==
    CASE op = "in" -> "IN"
      [] op = "!=" -> "<>"
      [] OTHER -> op

\* ---- rendering -----------------------------------------------------------
\* Where::to_sql
Where_to_sql(w, add_boolean) ==
    LET ph == IF ~w.value.some THEN <<>>
              ELSE IF as_array(w.value.v).some
                   THEN <<"(">> \o JoinWith([i \in 1..Len(as_array(w.value.v).v) |-> <<"?">>],
                                            <<",", " ">>) \o <<")">>
                   ELSE <<"?">>
        sql == w.column \o <<" ", w.operator, " ">> \o ph
    IN IF add_boolean THEN <<" ", w.boolean, " ">> \o sql \o <<" ">> ELSE sql

\* Variant: the connective is added after every clause but the last.
AddBoolean_NotLast(i, len) == i # len

\* The connective test of the rendering loops: i != 0 (0-based index).
AddBoolean(i, len) == i # 1

RECURSIVE WhereClause_to_sql(_, _)
\* WhereClause::to_sql
WhereClause_to_sql(c, add_boolean) ==
    IF c.kind = "Simple" THEN Where_to_sql(c, add_boolean)
    ELSE LET sql == Concat([i \in 1..Len(c.clauses) |->
                        WhereClause_to_sql(c.clauses[i], AddBoolean(i, Len(c.clauses)))])
         IN IF add_boolean THEN <<" ", c.boolean, " ", "(">> \o sql \o <<")">>
            ELSE <<"(">> \o sql \o <<")">>

\* Variant: an array value is bound as one value instead of element-wise.
SimpleBindings_NoExpand(w) == IF ~w.value.some THEN <<>> ELSE <<w.value.v>>

\* Vec<Value> contributed by one simple clause.
SimpleBindings(w) ==
    IF ~w.value.some THEN <<>>
    ELSE IF w.value.v.t = "Array" THEN w.value.v.items
    ELSE <<w.value.v>>

RECURSIVE WhereClause_get_bindings(_)
\* WhereClause::get_bindings
WhereClause_get_bindings(c) ==
    IF c.kind = "Simple" THEN SimpleBindings(c)
    ELSE Concat([i \in 1..Len(c.clauses) |-> WhereClause_get_bindings(c.clauses[i])])

\* Builder::get_bindings
get_bindings(b) ==
    Concat([i \in 1..Len(b.where) |-> WhereClause_get_bindings(b.where[i])])

\* Builder::to_sql
to_sql(b, type) ==
    LET head == CASE type = "Update" -> <<>>
                  [] type = "Delete" -> <<"DELETE", " ", "FROM", " ", b.table>>
                  [] type = "Select" -> <<"SELECT", " ", "*", " ", "FROM", " ", b.table>>
                  [] type = "Count" -> <<"SELECT", " ", "COUNT(*)", " ", "FROM", " ", b.table>>
        joins == Concat([i \in 1..Len(b.join) |->
                    <<" ", b.join[i].type, " ">> \o b.join[i].column
                        \o <<" ", "ON", " ", b.join[i].first, " ", b.join[i].operator,
                             " ", b.join[i].second>>])
        wheres == IF b.where = <<>> THEN <<>>
                  ELSE <<" ", "WHERE", " ">> \o
                       Concat([i \in 1..Len(b.where) |->
                           WhereClause_to_sql(b.where[i], AddBoolean(i, Len(b.where)))])
        orders == IF b.order = <<>> THEN <<>>
                  ELSE <<" ", "ORDER BY", " ">> \o
                       JoinWith([i \in 1..Len(b.order) |->
                                    b.order[i].column \o <<" ", b.order[i].direction>>],
                                <<",", " ">>)
        lim == IF b.limit.some THEN <<" ", "LIMIT", " ", ToString(b.limit.v)>> ELSE <<>>
        off == IF b.offset.some THEN <<" ", "OFFSET", " ", ToString(b.offset.v)>> ELSE <<>>
    IN head \o joins \o wheres \o orders \o lim \o off

\* The parts of the state a specification does not use stay at these values.
NoRel == [kind |-> "none"]
NoLast == [op |-> "none"]
EmptyDb == [t \in {"users", "phones", "posts", "teams", "roles", "role_user"} |-> <<>>]
IdleDb == db = EmptyDb /\ pool = "ready" /\ sent = <<>>
IdleRel == rel = NoRel /\ last = NoLast
IdleGet == pc = "idle" /\ gq = new("users") /\ models = <<>> /\ remaining = {} /\ gres = "none"
NoMutation == [op |-> "none"]
IdleMut == self = None /\ mres = NoMutation
NoTerminal == [op |-> "none"]
IdleTerm == term = NoTerminal /\ alive = TRUE
NotRun == [done |-> FALSE]
IdleBridge == bridgeIn = Null /\ bridgeDb = NotRun /\ bridgeBack = NotRun /\ bridgeJson = NotRun
IdlePure == rendered = NotRun
IdleGroup == grouped = NotRun
NoMigrator == [pc |-> "none"]
EmptyMigrations == [rows |-> <<>>, work |-> <<>>, open |-> FALSE]
IdleMig == mig = NoMigrator /\ slot = None /\ mdb = EmptyMigrations /\ log = <<>> /\ made = 0
IdleCreate == creation = NotRun
IdleSchema == sch = NotRun
Idle == IdleDb /\ IdleRel /\ IdleGet /\ IdleMut /\ IdleTerm /\ IdleBridge /\ IdlePure /\ IdleGroup /\ IdleMig /\ IdleCreate /\ IdleSchema

\* ---- fluent methods ------------------------------------------------------
RECURSIVE NodeCount(_)
NodeCount(cs) ==
    IF cs = <<>> THEN 0
    ELSE (IF Head(cs).kind = "Simple" THEN 1 ELSE 1 + NodeCount(Head(cs).clauses))
         + NodeCount(Tail(cs))

RECURSIVE StackNodes(_)
StackNodes(st) == IF st = <<>> THEN 0 ELSE NodeCount(Head(st).where) + StackNodes(Tail(st))

\* The builder the next fluent call is applied to: the top-level builder, or
\* the fresh builder of the innermost running where_group callback.
cur == stack[Len(stack)]
Room == ~panicked /\ alive /\ StackNodes(stack) + (Len(stack) - 1) < MaxClauses

SetCur(b) == stack' = [stack EXCEPT ![Len(stack)] = b]
Push(c) == SetCur([cur EXCEPT !.where = Append(@, c)])

WhereInputs ==
    { <<"age", ">", [ty |-> "i32", v |-> "18"]>>,
      <<"status", "=", [ty |-> "str", v |-> "active"]>> }

OrWhereInputs == { <<"status", "=", Scalar("String", "pending")>> }

InLists == { <<>>, <<Scalar("U64", "1"), Scalar("U64", "2")>> }

NullColumns == {"deleted_at"}

\* Builder::where
Where ==
    /\ Room
    /\ \E in \in WhereInputs :
         Push(Simple(escape(in[1]), "AND", OperatorText(in[2]), Some(for_db(in[3]))))
    /\ UNCHANGED <<dialect, panicked, dbVars, relVars, getVars, mutVars, termVars, bridgeVars, pureVars, groupVars, migVars, createVars, schemaVars>>

\* Variant: or_where without its assertion.
or_where_assert_Off(b) == TRUE

\* assert!(!self.where.is_empty(), "Cannot use or_where without a where clause.")
or_where_assert(b) == b.where # <<>>

\* Builder::or_where
OrWhere ==
    /\ Room
    /\ \E in \in OrWhereInputs :
         IF ~or_where_assert(cur)
         THEN panicked' = TRUE /\ UNCHANGED stack
         ELSE /\ Push(Simple(escape(in[1]), "OR", OperatorText(in[2]), Some(in[3])))
              /\ UNCHANGED panicked
    /\ UNCHANGED <<dialect, dbVars, relVars, getVars, mutVars, termVars, bridgeVars, pureVars, groupVars, migVars, createVars, schemaVars>>

\* Builder::where_not_null
WhereNotNull ==
    /\ Room
    /\ \E c \in NullColumns : Push(Simple(escape(c), "AND", "IS NOT NULL", None))
    /\ UNCHANGED <<dialect, panicked, dbVars, relVars, getVars, mutVars, termVars, bridgeVars, pureVars, groupVars, migVars, createVars, schemaVars>>

\* Builder::where_in
WhereIn ==
    /\ Room
    /\ \E vs \in InLists : Push(Simple(escape("id"), "AND", "IN", Some(Array(vs))))
    /\ UNCHANGED <<dialect, panicked, dbVars, relVars, getVars, mutVars, termVars, bridgeVars, pureVars, groupVars, migVars, createVars, schemaVars>>

\* Builder::where_null
WhereNull ==
    /\ Room
    /\ \E c \in NullColumns : Push(Simple(escape(c), "AND", "IS NULL", None))
    /\ UNCHANGED <<dialect, panicked, dbVars, relVars, getVars, mutVars, termVars, bridgeVars, pureVars, groupVars, migVars, createVars, schemaVars>>

\* Variant: the group is pushed and the callback's limit is taken over as well.
where_group_KeepingLimit(parent, callback) ==
    [parent EXCEPT !.where = Append(@, Group(callback.where, "AND")), !.limit = callback.limit]

\* Builder::where_group once the callback has returned the builder callback:
\* self.where.push(WhereClause::Group(builder.where, Boolean::And))
where_group(parent, callback) ==
    [parent EXCEPT !.where = Append(@, Group(callback.where, "AND"))]

\* Builder::where_group, entry: the callback receives Self::new(self.table.clone()).
WhereGroupCall ==
    /\ Room
    /\ Len(stack) < MaxDepth
    /\ stack' = Append(stack, new(cur.table))
    /\ UNCHANGED <<dialect, panicked, dbVars, relVars, getVars, mutVars, termVars, bridgeVars, pureVars, groupVars, migVars, createVars, schemaVars>>

\* Builder::where_group, after the callback returned: its predicates become one group.
WhereGroupReturn ==
    /\ ~panicked
    /\ Len(stack) > 1
    /\ LET parent == stack[Len(stack) - 1]
       IN stack' = [i \in 1..(Len(stack) - 1) |->
                      IF i = Len(stack) - 1 THEN where_group(parent, cur) ELSE stack[i]]
    /\ UNCHANGED <<dialect, panicked, dbVars, relVars, getVars, mutVars, termVars, bridgeVars, pureVars, groupVars, migVars, createVars, schemaVars>>

InitRender ==
    /\ stack = <<new("users")>>
    /\ dialect \in Dialects
    /\ panicked = FALSE
    /\ Idle

NextRender ==
    \/ Where
    \/ OrWhere
    \/ WhereNotNull
    \/ WhereIn
    \/ WhereNull
    \/ WhereGroupCall
    \/ WhereGroupReturn

SpecRender == InitRender /\ [][NextRender]_vars

\* ------------------------------------------------------------------------
\* Properties of the rendering
\* ------------------------------------------------------------------------
StatementTypes == {"Select", "Count", "Update", "Delete"}
ColumnNames == {"age", "status", "id", "deleted_at"}

\* The text without its blanks.
Strip(text) == SelectSeq(text, LAMBDA tok : tok # " ")
CountPlaceholders(text) == Len(SelectSeq(text, LAMBDA tok : tok = "?"))
\* The column names and placeholders of a text, in the order they appear.
TextSkeleton(text) == SelectSeq(text, LAMBDA tok : tok \in ColumnNames \cup {"?"})

Repeat(n, x) == [i \in 1..n |-> x]
Arity(w) ==
    IF ~w.value.some THEN 0
    ELSE IF w.value.v.t = "Array" THEN Len(w.value.v.items) ELSE 1

RECURSIVE TreeSkeleton(_)
\* Depth-first, left-to-right walk of a predicate list: each comparison gives
\* its column followed by one placeholder per value it binds.
TreeSkeleton(cs) ==
    IF cs = <<>> THEN <<>>
    ELSE (IF Head(cs).kind = "Simple"
          THEN <<Head(cs).column[2]>> \o Repeat(Arity(Head(cs)), "?")
          ELSE TreeSkeleton(Head(cs).clauses)) \o TreeSkeleton(Tail(cs))

RECURSIVE TreeValues(_)
\* The values bound by a predicate list in the same walk, arrays element-wise.
TreeValues(cs) ==
    IF cs = <<>> THEN <<>>
    ELSE (IF Head(cs).kind = "Simple"
          THEN (IF Arity(Head(cs)) = 0 THEN <<>>
                ELSE IF Head(cs).value.v.t = "Array" THEN Head(cs).value.v.items
                ELSE <<Head(cs).value.v>>)
          ELSE TreeValues(Head(cs).clauses)) \o TreeValues(Tail(cs))

RECURSIVE HasUnary(_)
HasUnary(cs) ==
    /\ cs # <<>>
    /\ \/ IF Head(cs).kind = "Simple" THEN ~Head(cs).value.some ELSE HasUnary(Head(cs).clauses)
       \/ HasUnary(Tail(cs))

RECURSIVE ExpectedScope(_, _)
\* What one scope must render to, blanks aside: the first predicate bare, each
\* later one behind its own connective, a group in one pair of parentheses.
ExpectedScope(cs, first) ==
    IF cs = <<>> THEN <<>>
    ELSE LET c == Head(cs)
             body == IF c.kind = "Simple"
                     THEN c.column \o <<c.operator>> \o
                          (IF ~c.value.some THEN <<>>
                           ELSE IF c.value.v.t = "Array"
                                THEN <<"(">> \o JoinWith(Repeat(Len(c.value.v.items), <<"?">>), <<",">>)
                                     \o <<")">>
                                ELSE <<"?">>)
                     ELSE <<"(">> \o ExpectedScope(c.clauses, TRUE) \o <<")">>
         IN (IF first THEN <<>> ELSE <<c.boolean>>) \o body \o ExpectedScope(Tail(cs), FALSE)

RECURSIVE GroupsAreAnd(_)
GroupsAreAnd(cs) ==
    \A i \in 1..Len(cs) :
        cs[i].kind = "Group" => (cs[i].boolean = "AND" /\ GroupsAreAnd(cs[i].clauses))

\* where(age > 18).where_group(where(status = active).or_where(status = pending))
ScenarioTree ==
    <<Simple(escape("age"), "AND", ">", Some(Scalar("I32", "18"))),
      Group(<<Simple(escape("status"), "AND", "=", Some(Scalar("String", "active"))),
              Simple(escape("status"), "OR", "=", Some(Scalar("String", "pending")))>>, "AND")>>

ScenarioText ==
    <<"WHERE">> \o escape("age") \o <<">", "?", "AND", "(">> \o escape("status")
        \o <<"=", "?", "OR">> \o escape("status") \o <<"=", "?", ")">>

\* C2: within one scope the first predicate is rendered without a connective
\* and every later one is preceded by its own connective, a where_group is
\* one parenthesized unit joined with AND; the age / status scenario renders
\* as age > ? AND (status = ? OR status = ?) with bindings 18, active, pending.
C2_ConnectivesAndGrouping ==
    \A k \in 1..Len(stack) :
        LET b == stack[k]
        IN /\ Strip(to_sql(b, "Update")) =
                (IF b.where = <<>> THEN <<>> ELSE <<"WHERE">> \o ExpectedScope(b.where, TRUE))
           /\ GroupsAreAnd(b.where)
           /\ b.where = ScenarioTree =>
                /\ Strip(to_sql(b, "Update")) = ScenarioText
                /\ get_bindings(b) = <<Scalar("I32", "18"), Scalar("String", "active"),
                                       Scalar("String", "pending")>>

C2_Witness == Len(stack) = 1 /\ stack[1].where = ScenarioTree

\* C11: or_where on a builder whose predicate list is empty panics: nothing is
\* appended, no statement is sent, and nothing runs afterwards; this holds in
\* the fresh builder of a where_group callback as well, whatever the parent holds.
C11_OrWhereOnEmptyPanics ==
    [][/\ ~panicked
       /\ (OrWhere /\ cur.where = <<>>) => (panicked' /\ stack' = stack /\ sent' = sent)]_vars

\* The panic inside a where_group callback of a builder that has predicates.
C11_Witness ==
    /\ panicked
    /\ Len(stack) = 2
    /\ stack[1].where # <<>>
    /\ stack[2].where = <<>>

\* ------------------------------------------------------------------------
\* The models of the application and the names the derive macro gives them
\* ------------------------------------------------------------------------
\* struct User  { id: u64, team_id: u64, phone: HasOne<User, Phone>,
\*                team: BelongsTo<User, Team>, posts: HasMany<User, Post>,
\*                roles: BelongsToMany<User, Role> }
\* struct Phone { id: u64, user_id: u64 }   struct Post { id: u64, user_id: u64 }
\* struct Team  { id: u64 }                 struct Role { id: u64 }
RelationKind == [phone |-> "HasOne", team |-> "BelongsTo", posts |-> "HasMany",
                 roles |-> "BelongsToMany"]
RelationNames == DOMAIN RelationKind
RelatedModel == [phone |-> "Phone", team |-> "Team", posts |-> "Post", roles |-> "Role"]

\* impl_table_name: pluralize(snake_case(struct name))
TABLE_NAME == [User |-> "users", Phone |-> "phones", Post |-> "posts", Team |-> "teams",
               Role |-> "roles"]
\* impl_primary_key
PRIMARY_KEY == [User |-> "id", Phone |-> "id", Post |-> "id", Team |-> "id", Role |-> "id"]
\* The column fields of each model (impl_keys without the relationship fields).
ModelColumns == [User |-> {"id", "team_id"}, Phone |-> {"id", "user_id"},
                 Post |-> {"id", "user_id"}, Team |-> {"id"}, Role |-> {"id"}]

\* format!("{}_{}", NAME.to_snake_case(), PRIMARY_KEY).to_snake_case()
SnakeKey(model) ==
    CASE model = "User" -> "user_id"
      [] model = "Phone" -> "phone_id"
      [] model = "Post" -> "post_id"
      [] model = "Team" -> "team_id"
      [] model = "Role" -> "role_id"

\* The characters of the struct names, in the order of their bytes (the order
\* of String's Ord): the capitals, the underscore, the small letters.
Capitals == <<"A", "B", "C", "D", "E", "F", "G", "H", "I", "J", "K", "L", "M",
              "N", "O", "P", "Q", "R", "S", "T", "U", "V", "W", "X", "Y", "Z">>
Smalls == <<"a", "b", "c", "d", "e", "f", "g", "h", "i", "j", "k", "l", "m",
            "n", "o", "p", "q", "r", "s", "t", "u", "v", "w", "x", "y", "z">>
ByteOrder == Capitals \o <<"_">> \o Smalls
Byte(c) == CHOOSE i \in 1..Len(ByteOrder) : ByteOrder[i] = c
IsCapital(c) == \E i \in 1..Len(Capitals) : Capitals[i] = c
Lower(c) == IF IsCapital(c) THEN Smalls[Byte(c)] ELSE c

\* Model::NAME, character by character (impl_name: the struct's identifier).
Spelling ==
    [User |-> <<"U", "s", "e", "r">>,
     Phone |-> <<"P", "h", "o", "n", "e">>,
     Post |-> <<"P", "o", "s", "t">>,
     Team |-> <<"T", "e", "a", "m">>,
     Role |-> <<"R", "o", "l", "e">>]

\* <String as Ord>::lt: the first differing byte decides, a proper prefix is smaller.
RECURSIVE StrLess(_, _)
StrLess(x, y) ==
    IF y = <<>> THEN FALSE
    ELSE IF x = <<>> THEN TRUE
    ELSE IF Head(x) # Head(y) THEN Byte(Head(x)) < Byte(Head(y))
    ELSE StrLess(Tail(x), Tail(y))

\* names.sort() on the array of the two names
sort(names) == IF StrLess(names[2], names[1]) THEN <<names[2], names[1]>> ELSE names

\* names.join("_")
join(names) == names[1] \o <<"_">> \o names[2]

\* Inflector's to_snake_case on names made of capitalised words: every letter
\* is lowered, a capital that follows a small letter starts a new word.
to_snake_case(x) ==
    LET Piece(i) == IF i > 1 /\ IsCapital(x[i]) /\ ~IsCapital(x[i - 1]) /\ x[i - 1] # "_"
                    THEN <<"_", Lower(x[i])>>
                    ELSE <<Lower(x[i])>>
        Pieces[i \in 0..Len(x)] == IF i = 0 THEN <<>> ELSE Pieces[i - 1] \o Piece(i)
    IN Pieces[Len(x)]

\* The table names the pivot computation can produce, with their characters.
TableTexts ==
    {"phone_phone",
     "phone_post",
     "phone_role",
     "phone_team",
     "phone_user",
     "post_post",
     "post_role",
     "post_team",
     "post_user",
     "role_role",
     "role_team",
     "role_user",
     "team_team",
     "team_user",
     "user_user"}
TextSpelling ==
    [phone_phone |-> <<"p", "h", "o", "n", "e", "_", "p", "h", "o", "n", "e">>,
     phone_post |-> <<"p", "h", "o", "n", "e", "_", "p", "o", "s", "t">>,
     phone_role |-> <<"p", "h", "o", "n", "e", "_", "r", "o", "l", "e">>,
     phone_team |-> <<"p", "h", "o", "n", "e", "_", "t", "e", "a", "m">>,
     phone_user |-> <<"p", "h", "o", "n", "e", "_", "u", "s", "e", "r">>,
     post_post |-> <<"p", "o", "s", "t", "_", "p", "o", "s", "t">>,
     post_role |-> <<"p", "o", "s", "t", "_", "r", "o", "l", "e">>,
     post_team |-> <<"p", "o", "s", "t", "_", "t", "e", "a", "m">>,
     post_user |-> <<"p", "o", "s", "t", "_", "u", "s", "e", "r">>,
     role_role |-> <<"r", "o", "l", "e", "_", "r", "o", "l", "e">>,
     role_team |-> <<"r", "o", "l", "e", "_", "t", "e", "a", "m">>,
     role_user |-> <<"r", "o", "l", "e", "_", "u", "s", "e", "r">>,
     team_team |-> <<"t", "e", "a", "m", "_", "t", "e", "a", "m">>,
     team_user |-> <<"t", "e", "a", "m", "_", "u", "s", "e", "r">>,
     user_user |-> <<"u", "s", "e", "r", "_", "u", "s", "e", "r">>]

\* The String holding the given characters.
Text(x) == IF \E t \in TableTexts : TextSpelling[t] = x
           THEN CHOOSE t \in TableTexts : TextSpelling[t] = x
           ELSE "?"

\* The default pivot name with the sort left out.
PivotName_Unsorted(a, b) == Text(to_snake_case(join(<<Spelling[a], Spelling[b]>>)))

\* names.sort(); names.join("_").to_snake_case()
PivotName(a, b) == Text(to_snake_case(join(sort(<<Spelling[a], Spelling[b]>>))))

\* format!("{}.{}", table, column); the text and its parts.
QualifiedNames ==
    { <<"phones", "user_id", "phones.user_id">>, <<"posts", "user_id", "posts.user_id">>,
      <<"teams", "id", "teams.id">>, <<"roles", "id", "roles.id">>,
      <<"users", "id", "users.id">>,
      <<"role_user", "role_id", "role_user.role_id">>,
      <<"role_user", "user_id", "role_user.user_id">> }
Qualify(table, column) == (CHOOSE q \in QualifiedNames : q[1] = table /\ q[2] = column)[3]
\* The column a (possibly qualified) name refers to.
ColumnOf(name) ==
    IF \E q \in QualifiedNames : q[3] = name
    THEN (CHOOSE q \in QualifiedNames : q[3] = name)[2]
    ELSE name

\* ------------------------------------------------------------------------
\* Fluent methods as functions of the builder
\* ------------------------------------------------------------------------
\* query.rs: Builder::where / where_not_null / limit / with
q_where(b, column, op, value) ==
    [b EXCEPT !.where = Append(@, Simple(escape(column), "AND", OperatorText(op), Some(for_db(value))))]
q_where_not_null(b, column) ==
    [b EXCEPT !.where = Append(@, Simple(escape(column), "AND", "IS NOT NULL", None))]
q_limit(b, take) == [b EXCEPT !.limit = Some(take)]
q_with(b, relations) == [b EXCEPT !.eager_load = @ \cup relations]

\* builder.rs: Builder::where / where_not_null / limit / from / join (columns are not escaped;
\* to_value! and for_db give the same value for the integer keys and key vectors bound here)
b_where(b, column, op, value) ==
    [b EXCEPT !.where = Append(@, Simple(<<column>>, "AND", OperatorText(op), Some(for_db(value))))]
b_where_not_null(b, column) ==
    [b EXCEPT !.where = Append(@, Simple(<<column>>, "AND", "IS NOT NULL", None))]
b_limit(b, take) == [b EXCEPT !.limit = Some(take)]
b_from(b, table) == [b EXCEPT !.table = table]
b_join(b, column, first, op, second) ==
    [b EXCEPT !.join = Append(@, [operator |-> OperatorText(op), type |-> "INNER JOIN",
                                  first |-> first, second |-> second, column |-> <<column>>])]

\* ------------------------------------------------------------------------
\* The database behind the driver
\* ------------------------------------------------------------------------
\* The name inside an escaped or plain column.
RawName(column) == IF Len(column) = 3 THEN column[2] ELSE column[1]

\* SQL comparison of a stored value with a bound value: by content, NULL equals nothing.
SqlEq(a, b) == a.t # "Null" /\ b.t # "Null" /\ a.v = b.v

\* One comparison of a WHERE clause on one row.
RowSatisfies(row, w) ==
    LET col == ColumnOf(RawName(w.column))
        cell == IF col \in DOMAIN row THEN row[col] ELSE Null
    IN CASE w.operator = "=" -> SqlEq(cell, w.value.v)
         [] w.operator = "IN" -> \E i \in 1..Len(w.value.v.items) : SqlEq(cell, w.value.v.items[i])
         [] w.operator = "IS NOT NULL" -> cell.t # "Null"
         [] w.operator = "IS NULL" -> cell.t = "Null"
         [] OTHER -> FALSE

RECURSIVE JoinRows(_, _, _)
\* INNER JOIN: every pair of a left row and a right row that satisfies ON, left rows outermost.
JoinRows(left, right, j) ==
    IF left = <<>> THEN <<>>
    ELSE LET l == Head(left)
             hits == SelectSeq(right, LAMBDA r :
                        SqlEq(l[ColumnOf(j.first)], r[ColumnOf(j.second)]))
         IN [i \in 1..Len(hits) |-> l @@ hits[i]] \o JoinRows(Tail(left), right, j)

\* The rows a SELECT built from b returns (predicates of relationship queries are all ANDed).
Execute(b) ==
    LET base == db[b.table]
        joined == IF b.join = <<>> THEN base
                  ELSE JoinRows(base, db[RawName(b.join[1].column)], b.join[1])
        hits == SelectSeq(joined, LAMBDA row :
                    \A i \in 1..Len(b.where) : RowSatisfies(row, b.where[i]))
    IN IF b.limit.some /\ b.limit.v < Len(hits) THEN SubSeq(hits, 1, b.limit.v) ELSE hits

Statement(type, b) == [type |-> type, table |-> b.table, limit |-> b.limit]

\* Builder::_get once per builder of bs, in order: take a connection, send the
\* SELECT, collect the rows; the first error ends it.
\* fails: the driver reports an error for the first statement.
RunSelects(bs, fails) ==
    IF pool # "ready" THEN [res |-> "Connection", rows |-> <<>>, sent |-> sent]
    ELSE IF fails
    THEN [res |-> "Database", rows |-> <<>>, sent |-> Append(sent, Statement("Select", bs[1]))]
    ELSE [res |-> "Ok", rows |-> Concat([i \in 1..Len(bs) |-> Execute(bs[i])]),
          sent |-> sent \o [i \in 1..Len(bs) |-> Statement("Select", bs[i])]]

\* Builder::_get
Builder_get(b, fails) == RunSelects(<<b>>, fails)

\* value::from::<M>: the columns of M taken from a row; fails when one is missing.
from(model, row) ==
    IF ModelColumns[model] \subseteq DOMAIN row
    THEN [res |-> "Ok", v |-> [c \in ModelColumns[model] |-> row[c]]]
    ELSE [res |-> "Serialization"]

\* Builder::get on a builder without eager loads: the rows decoded as M.
GetModels(model, b, fails) ==
    LET r == Builder_get(b, fails)
        decoded == [i \in 1..Len(r.rows) |-> from(model, r.rows[i])]
    IN IF r.res # "Ok" THEN [res |-> r.res, v |-> <<>>, sent |-> r.sent]
       ELSE IF \E i \in 1..Len(decoded) : decoded[i].res # "Ok"
            THEN [res |-> "Serialization", v |-> <<>>, sent |-> r.sent]
            ELSE [res |-> "Ok", v |-> [i \in 1..Len(decoded) |-> decoded[i].v], sent |-> r.sent]

\* Builder::first
First(model, b, fails) ==
    LET r == GetModels(model, [b EXCEPT !.limit = Some(1)], fails)
    IN [res |-> r.res, v |-> IF r.v = <<>> THEN None ELSE Some(r.v[1]), sent |-> r.sent]

\* ------------------------------------------------------------------------
\* Relationships (relationships/*.rs)
\* ------------------------------------------------------------------------
Singular == {"HasOne", "BelongsTo"}
Collection == {"HasMany", "BelongsToMany"}
\* HasOne and BelongsToMany keep a Status<T>; BelongsTo and HasMany keep an Option<T>.
UsesStatus == {"HasOne", "BelongsToMany"}

\* Status::initial / Status::Fetched
Initial(opt) == [status |-> "Initial", opt |-> opt]
Fetched(opt) == [status |-> "Fetched", opt |-> opt]

\* Deref for Status / the Option itself
Deref(r) == IF r.kind \in UsesStatus THEN r.relation.opt ELSE r.relation
\* Relationship::is_loaded (Status::is_loaded); for the Option-based kinds the
\* relation is loaded when the Option holds a value.
is_loaded(r) ==
    IF r.kind \in UsesStatus THEN r.relation.status = "Fetched" ELSE r.relation.some

\* Option::unwrap_or_else
unwrap_or_else(option, default) == IF option.some THEN option.v ELSE default

\* <BelongsToMany<Local, Related> as Relationship>::build
BelongsToMany_build(local, related, value, pivot_table, foreign_key, local_key) ==
    [kind |-> "BelongsToMany", local |-> local, related |-> related,
     pivot_table |-> unwrap_or_else(pivot_table, PivotName(local, related)),
     foreign_key |-> unwrap_or_else(foreign_key, SnakeKey(related)),
     local_key |-> unwrap_or_else(local_key, SnakeKey(local)),
     relation |-> Initial(None), value |-> value]

\* Relationship::build for the relation field name of a User, keys left to the naming convention.
build(name, value) ==
    LET kind == RelationKind[name]
        related == RelatedModel[name]
    IN CASE kind = "HasOne" ->
              [kind |-> kind, related |-> related, foreign_key |-> SnakeKey("User"),
               relation |-> Initial(None), value |-> value]
         [] kind = "BelongsTo" ->
              [kind |-> kind, related |-> related, local_key |-> PRIMARY_KEY[related],
               relation |-> None, value |-> value]
         [] kind = "HasMany" ->
              [kind |-> kind, related |-> related, foreign_key |-> SnakeKey("User"),
               relation |-> None, value |-> value]
         [] kind = "BelongsToMany" ->
              BelongsToMany_build("User", related, value, None, None, None)

\* The .limit(1) that closes HasOne::eager_query and BelongsTo::eager_query.
SingularEagerLimit(b) == [b EXCEPT !.limit = Some(1)]

\* Relationship::query
query(r) ==
    LET table == TABLE_NAME[r.related]
    IN CASE r.kind = "HasOne" ->
              q_limit(q_where_not_null(
                  q_where(new(table), Qualify(table, r.foreign_key), "=", r.value),
                  Qualify(table, r.foreign_key)), 1)
         [] r.kind = "BelongsTo" ->
              b_limit(b_where(new(table), Qualify(table, r.local_key), "=", r.value), 1)
         [] r.kind = "HasMany" ->
              b_where_not_null(
                  b_where(new(table), Qualify(table, r.foreign_key), "=", r.value),
                  Qualify(table, r.foreign_key))
         [] r.kind = "BelongsToMany" ->
              b_where(
                  b_join(b_from(new(table), table), r.pivot_table,
                         Qualify(table, PRIMARY_KEY[r.related]), "=",
                         Qualify(r.pivot_table, r.foreign_key)),
                  Qualify(r.pivot_table, r.local_key), "=", r.value)

\* Relationship::eager_query; keys: the values of the parents' relationship fields.
eager_query(r, keys) ==
    LET table == TABLE_NAME[r.related]
        ks == [ty |-> "vec", items |-> keys]
    IN CASE r.kind = "HasOne" ->
              SingularEagerLimit(q_where_not_null(
                  q_where(new(table), Qualify(table, r.foreign_key), "in", ks),
                  Qualify(table, r.foreign_key)))
         [] r.kind = "BelongsTo" ->
              SingularEagerLimit(b_where(new(table), Qualify(table, r.local_key), "in", ks))
         [] r.kind = "HasMany" ->
              b_where_not_null(
                  b_where(new(table), Qualify(table, r.foreign_key), "in", ks),
                  Qualify(table, r.foreign_key))
         [] r.kind = "BelongsToMany" ->
              b_where(
                  b_join(b_from(new(table), table), r.pivot_table,
                         Qualify(table, PRIMARY_KEY[r.related]), "=",
                         Qualify(r.pivot_table, r.foreign_key)),
                  Qualify(r.pivot_table, r.local_key), "in", ks)

\* Display for rbs::Value: a number as its digits, a string between double quotes.
to_string(v) ==
    CASE v.t = "String" -> <<"DQUOTE", v.v, "DQUOTE">>
      [] v.t = "Array" -> <<"[", "]">>
      [] OTHER -> <<v.v>>

\* Variant: the key is compared as a typed value.
KeyMatches_Typed(cell, value) == cell = value

\* The filter of find_related: v.to_string() == value.to_string()
KeyMatches(cell, value) == to_string(cell) = to_string(value)

\* .take(if wants_one { 1 } else { usize::MAX })
Take(rows, wants_one) == IF wants_one /\ Len(rows) > 1 THEN SubSeq(rows, 1, 1) ELSE rows

\* find_related
find_related(model, related, foreign_key, value, wants_one) ==
    LET val == for_db(value)
        hits == SelectSeq(related, LAMBDA row :
                    foreign_key \in DOMAIN row /\ KeyMatches(row[foreign_key], val))
        taken == Take(hits, wants_one)
        decoded == [i \in 1..Len(taken) |-> from(model, taken[i])]
    IN IF \E i \in 1..Len(decoded) : decoded[i].res # "Ok"
       THEN [res |-> "Serialization", v |-> <<>>]
       ELSE [res |-> "Ok", v |-> [i \in 1..Len(decoded) |-> decoded[i].v]]

\* The column Relationship::match hands to find_related.
MatchColumn(r) == IF r.kind = "BelongsTo" THEN r.local_key ELSE r.foreign_key

\* Relationship::match: the outcome and the relationship afterwards.
match(r, related) ==
    LET found == find_related(r.related, related, MatchColumn(r), r.value, r.kind \in Singular)
        next == IF found.v = <<>> THEN None ELSE Some(found.v[1])
    IN IF found.res # "Ok" THEN [res |-> found.res, rel |-> r]
       ELSE CASE r.kind = "HasOne" -> [res |-> "Ok", rel |-> [r EXCEPT !.relation = Fetched(next)]]
              [] r.kind = "BelongsTo" -> [res |-> "Ok", rel |-> [r EXCEPT !.relation = next]]
              [] r.kind = "HasMany" ->
                   [res |-> "Ok",
                    rel |-> IF found.v # <<>> THEN [r EXCEPT !.relation = Some(found.v)] ELSE r]
              [] r.kind = "BelongsToMany" ->
                   [res |-> "Ok",
                    rel |-> IF found.v # <<>> THEN [r EXCEPT !.relation = Fetched(Some(found.v))]
                            ELSE r]

\* The end of get in HasOne and BelongsTo: f is what query().first() returned.
SingularGot(r, f) ==
    IF f.res # "Ok" THEN [res |-> f.res, rel |-> r, sent |-> f.sent]
    ELSE IF ~f.v.some THEN [res |-> "NotFound", rel |-> r, sent |-> f.sent]
    ELSE [res |-> "Ok", sent |-> f.sent,
          rel |-> [r EXCEPT !.relation =
                      IF r.kind = "HasOne" THEN Fetched(Some(f.v.v)) ELSE Some(f.v.v)]]

\* The end of get in HasMany and BelongsToMany: g is what query().get() returned.
CollectionGot(r, g) ==
    IF g.res # "Ok" THEN [res |-> g.res, rel |-> r, sent |-> g.sent]
    ELSE [res |-> "Ok", sent |-> g.sent,
          rel |-> [r EXCEPT !.relation =
                      IF r.kind = "BelongsToMany" THEN Fetched(Some(g.v)) ELSE Some(g.v)]]

\* Relationship::get: the outcome, the relationship afterwards and the statements sent.
get(r, fails) ==
    IF Deref(r).some THEN [res |-> "Ok", rel |-> r, sent |-> sent]
    ELSE IF r.kind \in Singular
    THEN SingularGot(r, First(r.related, query(r), fails))
    ELSE CollectionGot(r, GetModels(r.related, query(r), fails))

\* ------------------------------------------------------------------------
\* Database contents and inputs
\* ------------------------------------------------------------------------
U64(v) == Scalar("U64", v)
RustKey(value) == [ty |-> "u64", v |-> value.v]

RECURSIVE Pick(_, _, _)
\* The rows of u whose index is in s, in the order of u.
Pick(u, s, i) ==
    IF i > Len(u) THEN <<>>
    ELSE (IF i \in s THEN <<u[i]>> ELSE <<>>) \o Pick(u, s, i + 1)
Tables(u) == { Pick(u, s, 1) : s \in SUBSET (1..Len(u)) }

UserRows == << [id |-> U64("1"), team_id |-> U64("1")],
               [id |-> U64("2"), team_id |-> U64("2")],
               [id |-> U64("3"), team_id |-> U64("1")] >>
ChildRows == << [id |-> U64("1"), user_id |-> U64("1")],
                [id |-> U64("2"), user_id |-> U64("2")],
                [id |-> U64("3"), user_id |-> Scalar("I32", "1")] >>
TeamRows == << [id |-> U64("1")], [id |-> U64("2")] >>
RoleRows == << [id |-> U64("1")], [id |-> U64("2")] >>
PivotRows == << [user_id |-> U64("1"), role_id |-> U64("2")],
                [user_id |-> U64("2"), role_id |-> U64("1")],
                [user_id |-> U64("1"), role_id |-> U64("1")] >>

\* The databases in which the tables behind one relation vary and the others are empty.
FocusDbs(name) ==
    CASE name = "phone" -> { [EmptyDb EXCEPT !["phones"] = t] : t \in Tables(ChildRows) }
      [] name = "posts" -> { [EmptyDb EXCEPT !["posts"] = t] : t \in Tables(ChildRows) }
      [] name = "team" -> { [EmptyDb EXCEPT !["teams"] = t] : t \in Tables(TeamRows) }
      [] name = "roles" -> { [EmptyDb EXCEPT !["roles"] = RoleRows, !["role_user"] = t] :
                              t \in Tables(PivotRows) }

\* The value a relationship field of a decoded User is built with
\* (Field::relationship: the primary key, for BelongsTo the <related>_id column).
RelationValue(name, user) ==
    IF RelationKind[name] = "BelongsTo" THEN RustKey(user.team_id) ELSE RustKey(user.id)

\* Rows that may be handed to match for key column k: the key as the same
\* typed value, as another integer type, as a string, another key, no key
\* column, and a row that cannot be decoded.
KeyedRow(k, id, key) == IF k = "id" THEN [id |-> key] ELSE [id |-> U64(id)] @@ (k :> key)
MatchRows(k) ==
    << KeyedRow(k, "11", Scalar("I32", "1")), KeyedRow(k, "12", Scalar("String", "1")),
       KeyedRow(k, "13", U64("2")), KeyedRow(k, "10", U64("1")), [other |-> U64("14")] >>
    \o (IF k = "id" THEN <<>> ELSE << (k :> U64("1")) >>)

\* The row lists of at most n rows taken from u in the order of u.
RowLists(u, n) == { Pick(u, s, 1) : s \in { t \in SUBSET (1..Len(u)) : Cardinality(t) <= n } }

\* ------------------------------------------------------------------------
\* One relationship instance: get, match, create
\* ------------------------------------------------------------------------
\* The accessor generated by impl_relationships: self.<field>.get().await
RelGet ==
    /\ \E fails \in BOOLEAN :
         LET g == get(rel, fails)
         IN /\ Len(g.sent) <= MaxSent
            /\ rel' = g.rel
            /\ sent' = g.sent
            /\ last' = [op |-> "get", res |-> g.res, rows |-> <<>>]
    /\ UNCHANGED <<stack, dialect, panicked, db, pool, getVars, mutVars, termVars, bridgeVars, pureVars, groupVars, migVars, createVars, schemaVars>>

\* fill_relation on this instance: self.<field>.match(related)
RelMatch ==
    /\ \E rows \in RowLists(MatchRows(MatchColumn(rel)), MaxMatchRows) :
         LET m == match(rel, rows)
         IN /\ rel' = m.rel
            /\ last' = [op |-> "match", res |-> m.res, rows |-> rows]
    /\ UNCHANGED <<stack, dialect, panicked, dbVars, getVars, mutVars, termVars, bridgeVars, pureVars, groupVars, migVars, createVars, schemaVars>>

\* HasMany::create: insert a related row carrying this parent's key and, when
\* the relation is loaded, push the created model.
RelCreate ==
    /\ rel.kind = "HasMany"
    /\ Len(sent) < MaxSent
    /\ \E fails \in BOOLEAN :
         LET table == TABLE_NAME[rel.related]
             created == [id |-> U64(ToString(10 + Len(db[table])))] @@
                        (rel.foreign_key :> for_db(rel.value))
             stmt == [type |-> "Insert", table |-> table, limit |-> None]
         IN IF pool # "ready"
            THEN /\ last' = [op |-> "create", res |-> "Connection", rows |-> <<>>]
                 /\ UNCHANGED <<rel, db, sent>>
            ELSE IF fails
            THEN /\ last' = [op |-> "create", res |-> "Database", rows |-> <<>>]
                 /\ sent' = Append(sent, stmt)
                 /\ UNCHANGED <<rel, db>>
            ELSE /\ last' = [op |-> "create", res |-> "Ok", rows |-> <<>>]
                 /\ sent' = Append(sent, stmt)
                 /\ db' = [db EXCEPT ![table] = Append(@, created)]
                 /\ rel' = IF rel.relation.some
                           THEN [rel EXCEPT !.relation = Some(Append(@.v, created))]
                           ELSE rel
    /\ UNCHANGED <<stack, dialect, panicked, pool, getVars, mutVars, termVars, bridgeVars, pureVars, groupVars, migVars, createVars, schemaVars>>

InitRel ==
    /\ stack = <<new("users")>>
    /\ dialect = "MySQL"
    /\ panicked = FALSE
    /\ IdleGet
    /\ IdleMut
    /\ IdleTerm
    /\ IdleBridge
    /\ IdleSchema
    /\ IdleCreate
    /\ IdleMig
    /\ IdleGroup
    /\ IdlePure
    /\ pool \in {"uninit", "ready"}
    /\ sent = <<>>
    /\ last = NoLast
    /\ \E name \in RelationNames :
         /\ db \in FocusDbs(name)
         /\ \E i \in 1..2 : rel = build(name, RelationValue(name, UserRows[i]))

NextRel ==
    \/ RelGet
    \/ RelMatch
    \/ RelCreate

SpecRel == InitRel /\ [][NextRel]_vars

\* ------------------------------------------------------------------------
\* Properties of one relationship instance
\* ------------------------------------------------------------------------
\* The rows of a row set whose key column renders like the parent's key.
MatchingRows(r, rows) ==
    SelectSeq(rows, LAMBDA row :
        /\ MatchColumn(r) \in DOMAIN row
        /\ to_string(row[MatchColumn(r)]) = to_string(for_db(r.value)))

\* The related model a row stands for.
Project(r, row) == [c \in ModelColumns[r.related] |-> row[c]]

\* C6: for every relationship kind and every row set passed to match, what
\* match attaches comes from the rows whose key column equals the parent's key
\* by string rendering: a singular relationship takes the first such row (or
\* nothing), a collection takes all of them in order; rows without the key
\* column or with another key are never attached, and a failing match
\* attaches nothing.
C6_MatchAttachesOnlyEqualKeys ==
    [][last'.op = "match" =>
        LET hits == MatchingRows(rel, last'.rows)
        IN IF last'.res # "Ok" THEN rel' = rel
           ELSE IF rel.kind \in Singular
           THEN Deref(rel') = (IF hits = <<>> THEN None ELSE Some(Project(rel, hits[1])))
           ELSE IF hits = <<>> THEN rel' = rel
           ELSE Deref(rel') = Some([i \in 1..Len(hits) |-> Project(rel, hits[i])])]_vars

\* A match over a row with the key as another integer type and a row that
\* does not match has attached a record.
C6_Witness ==
    /\ last.op = "match"
    /\ last.res = "Ok"
    /\ Deref(rel).some
    /\ \E i, j \in 1..Len(last.rows) :
         /\ MatchColumn(rel) \in DOMAIN last.rows[i]
         /\ last.rows[i][MatchColumn(rel)] = Scalar("I32", "1")
         /\ rel.value.v = "1"
         /\ <<last.rows[j]>> # MatchingRows(rel, <<last.rows[j]>>)

\* C7: when match finds no row for a collection relationship that was not
\* loaded, the relationship is afterwards loaded and holds an empty collection.
C7_EmptyMatchLoadsEmptyCollection ==
    [][(/\ last'.op = "match"
        /\ last'.res = "Ok"
        /\ rel.kind \in Collection
        /\ ~is_loaded(rel)
        /\ MatchingRows(rel, last'.rows) = <<>>)
       => (is_loaded(rel') /\ Deref(rel') = Some(<<>>))]_vars

\* C8: once loaded, a relationship stays loaded through get, match and
\* create, and a match that finds no matching row leaves the loaded result alone.
C8_LoadedNeverReverts ==
    [][is_loaded(rel) =>
        /\ is_loaded(rel')
        /\ (last'.op = "match" /\ MatchingRows(rel, last'.rows) = <<>>)
              => Deref(rel') = Deref(rel)]_vars

\* C9: get on a loaded relationship sends no statement, keeps the stored
\* result and succeeds.
C9_GetOnLoadedSendsNothing ==
    [][(last'.op = "get" /\ is_loaded(rel))
       => (sent' = sent /\ rel' = rel /\ last'.res = "Ok")]_vars

\* ------------------------------------------------------------------------
\* Builder::get with eager loading
\* ------------------------------------------------------------------------
\* A User decoded from a row: its columns and its relationship fields
\* (visitor_deserialize: <Kind<User, Related>>::build(key, foreign_key)).
DecodeUser(row) ==
    [id |-> row.id, team_id |-> row.team_id,
     rels |-> [name \in RelationNames |-> build(name, RelationValue(name, row))]]

\* M::default(): the relationship fields are built with the default key.
DefaultRel(name) == build(name, [ty |-> "u64", v |-> "0"])

\* The eager_load generated by impl_eager_load: one builder over the keys of all parents.
eager_load(name, ms) ==
    eager_query(DefaultRel(name), [i \in 1..Len(ms) |-> ms[i].rels[name].value])

\* Variant: one builder per parent.
EagerBuilders_PerParent(name, ms) == [i \in 1..Len(ms) |-> eager_load(name, <<ms[i]>>)]

\* The builders Builder::get runs for one requested relation.
EagerBuilders(name, ms) == <<eager_load(name, ms)>>

RECURSIVE FillAll(_, _, _)
\* for model in &mut models { model.fill_relation(&relation, &rows)?; }
FillAll(ms, name, rows) ==
    IF ms = <<>> THEN [res |-> "Ok", v |-> <<>>]
    ELSE LET m == match(Head(ms).rels[name], rows)
             rest == FillAll(Tail(ms), name, rows)
         IN IF m.res # "Ok" THEN [res |-> m.res, v |-> <<>>]
            ELSE IF rest.res # "Ok" THEN rest
            ELSE [res |-> "Ok",
                  v |-> <<[Head(ms) EXCEPT !.rels[name] = m.rel]>> \o rest.v]

\* Builder::get up to the first eager load: the primary query and the decoding of its rows.
GetPrimary ==
    /\ pc = "start"
    /\ \E fails \in BOOLEAN :
         LET r == Builder_get(gq, fails)
             ms == [i \in 1..Len(r.rows) |-> DecodeUser(r.rows[i])]
         IN /\ sent' = r.sent
            /\ IF r.res # "Ok"
               THEN pc' = "done" /\ gres' = r.res /\ UNCHANGED <<models, remaining>>
               ELSE /\ models' = ms
                    /\ IF ms = <<>> \/ gq.eager_load = {}
                       THEN pc' = "done" /\ gres' = "Ok" /\ UNCHANGED remaining
                       ELSE pc' = "eager" /\ remaining' = gq.eager_load /\ UNCHANGED gres
    /\ UNCHANGED <<stack, dialect, panicked, db, pool, relVars, gq, mutVars, termVars, bridgeVars, pureVars, groupVars, migVars, createVars, schemaVars>>

\* One turn of for relation in self.eager_load: the batched query of the
\* relation, then fill_relation on every model; the return when it was the last.
GetEager ==
    /\ pc = "eager"
    /\ \E name \in remaining, fails \in BOOLEAN :
         IF name \notin RelationNames
         THEN /\ panicked' = TRUE
              /\ pc' = "done"
              /\ gres' = "Panic"
              /\ UNCHANGED <<sent, models, remaining>>
         ELSE LET r == RunSelects(EagerBuilders(name, models), fails)
                  f == FillAll(models, name, r.rows)
              IN /\ sent' = r.sent
                 /\ UNCHANGED panicked
                 /\ IF r.res # "Ok"
                    THEN pc' = "done" /\ gres' = r.res /\ UNCHANGED <<models, remaining>>
                    ELSE IF f.res # "Ok"
                    THEN pc' = "done" /\ gres' = f.res /\ UNCHANGED <<models, remaining>>
                    ELSE /\ models' = f.v
                         /\ remaining' = remaining \ {name}
                         /\ IF remaining \ {name} = {}
                            THEN pc' = "done" /\ gres' = "Ok"
                            ELSE UNCHANGED <<pc, gres>>
    /\ UNCHANGED <<stack, dialect, db, pool, relVars, gq, mutVars, termVars, bridgeVars, pureVars, groupVars, migVars, createVars, schemaVars>>

RequestableNames == RelationNames \cup {"unknown"}

InitGet ==
    /\ stack = <<new("users")>>
    /\ dialect = "MySQL"
    /\ panicked = FALSE
    /\ IdleRel
    /\ IdleMut
    /\ IdleTerm
    /\ IdleBridge
    /\ IdleSchema
    /\ IdleCreate
    /\ IdleMig
    /\ IdleGroup
    /\ IdlePure
    /\ pool \in {"uninit", "ready"}
    /\ sent = <<>>
    /\ \E name \in RelationNames, users \in Tables(UserRows) :
         \E focus \in FocusDbs(name) : db = [focus EXCEPT !["users"] = users]
    /\ pc = "start"
    /\ \E names \in SUBSET RequestableNames : gq = q_with(new("users"), names)
    /\ models = <<>>
    /\ remaining = {}
    /\ gres = "none"

NextGet ==
    \/ GetPrimary
    \/ GetEager

SpecGet == InitGet /\ [][NextGet]_vars

\* ------------------------------------------------------------------------
\* Properties of Builder::get
\* ------------------------------------------------------------------------
Requested == gq.eager_load
Returned == pc = "done" /\ gres = "Ok"

\* C3: a get with R requested relations whose primary query returned at least
\* one row and that returns its models has sent exactly 1 + R SELECTs: the
\* primary query first, then one query per requested relation, one after the
\* other; the count does not depend on the number of rows.
C3_OnePlusRQueries ==
    /\ (Returned /\ Len(models) >= 1) =>
         /\ Len(sent) = 1 + Cardinality(Requested)
         /\ sent[1] = Statement("Select", gq)
         /\ \A i \in 1..Len(sent) : sent[i].type = "Select"
         /\ \A name \in Requested :
              \E i \in 2..Len(sent) : sent[i].table = TABLE_NAME[RelatedModel[name]]
    /\ pc = "eager" => Len(sent) = 1 + Cardinality(Requested) - Cardinality(remaining)

\* Three parents and two relations: three statements.
C3_Witness ==
    /\ Returned
    /\ Len(models) = 3
    /\ Cardinality(Requested) = 2
    /\ Len(sent) = 3

\* The set of records a relationship holds.
Attached(r) ==
    IF ~Deref(r).some THEN {}
    ELSE IF r.kind \in Singular THEN {Deref(r).v}
    ELSE {Deref(r).v[i] : i \in 1..Len(Deref(r).v)}

\* The roles the pivot table links to a user.
LinkedRoles(user) ==
    { [id |-> db["roles"][i].id] : i \in
        { k \in 1..Len(db["roles"]) :
            \E j \in 1..Len(db["role_user"]) :
                /\ SqlEq(db["role_user"][j].user_id, user.id)
                /\ SqlEq(db["role_user"][j].role_id, db["roles"][k].id) } }

\* C4: after a BelongsToMany relation was eager-loaded for a batch of parents,
\* each parent holds exactly the related rows the pivot table links to it and
\* none that is linked only to another parent.
C4_PivotLinkedRowsOnly ==
    (Returned /\ "roles" \in Requested) =>
        \A i \in 1..Len(models) : Attached(models[i].rels["roles"]) = LinkedRoles(models[i])

\* The rows of the related table that belong to a parent through a singular relation.
OwnRows(name, user) ==
    IF name = "phone"
    THEN SelectSeq(db["phones"], LAMBDA row : SqlEq(row.user_id, user.id))
    ELSE SelectSeq(db["teams"], LAMBDA row : SqlEq(row.id, user.team_id))

\* C5: the batched query of a singular relationship has an IN predicate over
\* all parent keys and no LIMIT, so after match every parent of the batch that
\* has a related row holds its own (first) related row.
C5_EverySingularParentGetsItsRow ==
    Returned =>
        \A name \in Requested \cap {"phone", "team"} :
            /\ \A k \in 2..Len(sent) :
                 sent[k].table = TABLE_NAME[RelatedModel[name]] => ~sent[k].limit.some
            /\ \A i \in 1..Len(models) :
                 OwnRows(name, models[i]) # <<>> =>
                    Attached(models[i].rels[name]) =
                        {[c \in ModelColumns[RelatedModel[name]] |-> OwnRows(name, models[i])[1][c]]}

\* ------------------------------------------------------------------------
\* Single-record mutations: save, increment, delete
\* ------------------------------------------------------------------------
\* The positions of the rows of b.table an UPDATE or DELETE built from b touches.
Affected(b) ==
    { i \in 1..Len(db[b.table]) :
        \A k \in 1..Len(b.where) : RowSatisfies(db[b.table][i], b.where[k]) }

\* conn.exec of a statement that changes b.table into rows: the connection,
\* the driver's answer and the affected-row count it reports.
Exec(type, b, rows, fails) ==
    IF pool # "ready"
    THEN [res |-> "Connection", rows_affected |-> None, db |-> db, sent |-> sent]
    ELSE IF fails
    THEN [res |-> "Database", rows_affected |-> None, db |-> db,
          sent |-> Append(sent, Statement(type, b))]
    ELSE [res |-> "Ok", rows_affected |-> Some(Cardinality(Affected(b))),
          db |-> [db EXCEPT ![b.table] = rows],
          sent |-> Append(sent, Statement(type, b))]

\* Builder::update: UPDATE <table> SET <column = ?, ...> <where>
Builder_update(b, values, fails) ==
    Exec("Update", b,
         [i \in 1..Len(db[b.table]) |->
            IF i \in Affected(b) THEN values @@ db[b.table][i] ELSE db[b.table][i]],
         fails)

NumberOf(s) == CHOOSE n \in 0..(MaxMutations + 3) : ToString(n) = s

\* Builder::increment: UPDATE <table> SET <column> = <column> + ? <where>
Builder_increment(b, column, amount, fails) ==
    Exec("Update", b,
         [i \in 1..Len(db[b.table]) |->
            IF i \in Affected(b) /\ db[b.table][i][column].t # "Null"
            THEN [db[b.table][i] EXCEPT
                    ![column].v = ToString(NumberOf(@) + amount)]
            ELSE db[b.table][i]],
         fails)

\* Builder::delete: DELETE FROM <table> <where>
Builder_delete(b, fails) ==
    Exec("Delete", b, Pick(db[b.table], (1..Len(db[b.table])) \ Affected(b), 1), fails)

\* Self::query().where(Self::PRIMARY_KEY, "=", self.primary_key())
ByPrimaryKey(model, m) ==
    q_where(new(TABLE_NAME[model]), PRIMARY_KEY[model], "=", RustKey(m[PRIMARY_KEY[model]]))

\* if rows_affected != 1 { return Err(Error::UniqueViolation) }
ExactlyOne(r) ==
    IF r.res # "Ok" THEN r.res
    ELSE IF r.rows_affected.v # 1 THEN "UniqueViolation" ELSE "Ok"

\* The save generated by impl_save, on the instance as the caller changed it.
Save ==
    /\ self.some
    /\ Len(sent) < MaxMutations
    /\ \E team \in {U64("1"), U64("2")}, fails \in BOOLEAN :
         LET m == [self.v EXCEPT !.team_id = team]
             r == Builder_update(ByPrimaryKey("User", m), m, fails)
         IN /\ self' = Some(m)
            /\ db' = r.db
            /\ sent' = r.sent
            /\ mres' = [op |-> "save", rows_affected |-> r.rows_affected, res |-> ExactlyOne(r)]
    /\ UNCHANGED <<stack, dialect, panicked, pool, relVars, getVars, termVars, bridgeVars, pureVars, groupVars, migVars, createVars, schemaVars>>

\* Model::increment
Increment ==
    /\ self.some
    /\ Len(sent) < MaxMutations
    /\ \E fails \in BOOLEAN :
         LET r == Builder_increment(ByPrimaryKey("User", self.v), "team_id", 1, fails)
         IN /\ db' = r.db
            /\ sent' = r.sent
            /\ mres' = [op |-> "increment", rows_affected |-> r.rows_affected,
                        res |-> ExactlyOne(r)]
    /\ UNCHANGED <<stack, dialect, panicked, pool, relVars, getVars, self, termVars, bridgeVars, pureVars, groupVars, migVars, createVars, schemaVars>>

\* Model::delete: the instance is consumed; the count Builder::delete returns is dropped.
Delete ==
    /\ self.some
    /\ Len(sent) < MaxMutations
    /\ \E fails \in BOOLEAN :
         LET r == Builder_delete(ByPrimaryKey("User", self.v), fails)
         IN /\ self' = None
            /\ db' = r.db
            /\ sent' = r.sent
            /\ mres' = [op |-> "delete", rows_affected |-> r.rows_affected, res |-> r.res]
    /\ UNCHANGED <<stack, dialect, panicked, pool, relVars, getVars, termVars, bridgeVars, pureVars, groupVars, migVars, createVars, schemaVars>>

\* A users table without a unique index on id: two rows may carry the same key.
StoredUsers == << [id |-> U64("1"), team_id |-> U64("1")],
                  [id |-> U64("1"), team_id |-> U64("2")],
                  [id |-> U64("2"), team_id |-> U64("1")] >>

InitMut ==
    /\ stack = <<new("users")>>
    /\ dialect = "MySQL"
    /\ panicked = FALSE
    /\ IdleRel
    /\ IdleGet
    /\ IdleTerm
    /\ IdleBridge
    /\ IdleSchema
    /\ IdleCreate
    /\ IdleMig
    /\ IdleGroup
    /\ IdlePure
    /\ pool \in {"uninit", "ready"}
    /\ sent = <<>>
    /\ \E users \in Tables(StoredUsers) : db = [EmptyDb EXCEPT !["users"] = users]
    /\ \E id \in {"1", "2"} : self = Some([id |-> U64(id), team_id |-> U64("1")])
    /\ mres = NoMutation

NextMut ==
    \/ Save
    \/ Increment
    \/ Delete

SpecMut == InitMut /\ [][NextMut]_vars

\* C10: a save, an increment or a delete for which the driver reported an
\* affected-row count other than 1 returns UniqueViolation, never success.
C10_WrongCountIsUniqueViolation ==
    (mres.op \in {"save", "increment", "delete"}
        /\ mres.rows_affected.some /\ mres.rows_affected.v # 1)
    => mres.res = "UniqueViolation"

\* ------------------------------------------------------------------------
\* Terminal methods of query.rs's Builder
\* ------------------------------------------------------------------------
\* Builder::join
q_join(b, column, first, op, second) ==
    [b EXCEPT !.join = Append(@, [operator |-> OperatorText(op), type |-> "INNER JOIN",
                                  first |-> first, second |-> second,
                                  column |-> escape(column)])]

\* Direction::from(&str) followed by Display for Direction
DirectionText(d) == IF d \in {"asc", "ascending"} THEN "ASC" ELSE "DESC"

\* Builder::order_by
q_order_by(b, column, direction) ==
    [b EXCEPT !.order = Append(@, [direction |-> DirectionText(direction),
                                   column |-> escape(column)])]

\* Builder::offset
q_offset(b, skip) == [b EXCEPT !.offset = Some(skip)]

Join ==
    /\ alive
    /\ Len(cur.join) < MaxJoins
    /\ SetCur(q_join(cur, "posts", "users.id", "=", "posts.user_id"))
    /\ UNCHANGED <<dialect, panicked, dbVars, relVars, getVars, mutVars, termVars, bridgeVars, pureVars, groupVars, migVars, createVars, schemaVars>>

OrderBy ==
    /\ alive
    /\ Len(cur.order) < MaxOrders
    /\ \E d \in {"asc", "desc"} : SetCur(q_order_by(cur, "age", d))
    /\ UNCHANGED <<dialect, panicked, dbVars, relVars, getVars, mutVars, termVars, bridgeVars, pureVars, groupVars, migVars, createVars, schemaVars>>

Limit ==
    /\ alive
    /\ SetCur(q_limit(cur, 5))
    /\ UNCHANGED <<dialect, panicked, dbVars, relVars, getVars, mutVars, termVars, bridgeVars, pureVars, groupVars, migVars, createVars, schemaVars>>

Offset ==
    /\ alive
    /\ SetCur(q_offset(cur, 2))
    /\ UNCHANGED <<dialect, panicked, dbVars, relVars, getVars, mutVars, termVars, bridgeVars, pureVars, groupVars, migVars, createVars, schemaVars>>

\* Variant: the pool is unwrapped without looking whether it was set.
connection_get_Unchecked(p) == "Ok"

\* connection::get
connection_get(p) == IF p = "ready" THEN "Ok" ELSE "NotInitialized"

\* What the driver may answer to a statement: a usable answer, an error, or an
\* answer the caller cannot decode.
Answers(op) ==
    IF op \in {"get", "first", "count", "insert"} THEN {"ok", "error", "undecodable"}
    ELSE {"ok", "error"}

\* The common course of the terminal methods: connection::get().await?, the
\* statement handed to the driver, map_err(Error::Database), the decoding.
Run(op, type, b, sql, bindings, answer) ==
    IF connection_get(pool) # "Ok" THEN [res |-> "Connection", sent |-> sent]
    ELSE [res |-> CASE answer = "ok" -> "Ok"
                    [] answer = "error" -> "Database"
                    [] answer = "undecodable" -> "Serialization",
          sent |-> Append(sent, [type |-> type, table |-> b.table, limit |-> b.limit,
                                 sql |-> sql, bindings |-> bindings])]

\* Columns::from(Vec<(&str, T)>)
Columns(values) ==
    [i \in 1..Len(values) |-> <<escape(values[i][1]), for_db(values[i][2])>>]

\* Variant: insert refuses limit, join and order only.
insert_invalid_NoWhere(b) == b.limit.some \/ b.join # <<>> \/ b.order # <<>>

\* The test that opens Builder::insert.
insert_invalid(b) == b.limit.some \/ b.join # <<>> \/ b.order # <<>> \/ b.where # <<>>

\* Builder::insert
insert(b, columns, answer) ==
    IF insert_invalid(b) THEN [res |-> "InvalidQuery", sent |-> sent]
    ELSE LET values == Columns(columns)
             sql == <<"INSERT", " ", "INTO", " ", b.table, " ", "(">>
                    \o JoinWith([i \in 1..Len(values) |-> values[i][1]], <<",", " ">>)
                    \o <<")", " ", "VALUES", " ", "(">>
                    \o JoinWith([i \in 1..Len(values) |-> <<"?">>], <<",", " ">>) \o <<")">>
         IN Run("insert", "Insert", b, sql, [i \in 1..Len(values) |-> values[i][2]], answer)

\* Builder::count
count(b, answer) == Run("count", "Count", b, to_sql(b, "Count"), get_bindings(b), answer)

\* Builder::get (no eager loads) and Builder::first
select(b, answer) == Run("get", "Select", b, to_sql(b, "Select"), get_bindings(b), answer)
first(b, answer) == select(q_limit(b, 1), answer)

\* Builder::increment
increment(b, column, amount, answer) ==
    Run("increment", "Update", b,
        <<"UPDATE", " ", b.table, " ", "SET", " ">> \o escape(column) \o <<" ", "=", " ">>
            \o escape(column) \o <<" ", "+", " ", "?", " ">> \o to_sql(b, "Update"),
        <<for_db(amount)>> \o get_bindings(b), answer)

\* Variant: update binding the predicate values ahead of the SET values.
update_PredicatesFirst(b, columns, answer) ==
    LET values == Columns(columns)
    IN Run("update", "Update", b,
           <<"UPDATE", " ", b.table, " ", "SET", " ">>
               \o JoinWith([i \in 1..Len(values) |-> values[i][1] \o <<" ", "=", " ", "?">>],
                           <<",", " ">>)
               \o <<" ">> \o to_sql(b, "Update"),
           get_bindings(b) \o [i \in 1..Len(values) |-> values[i][2]], answer)

\* Builder::update
update(b, columns, answer) ==
    LET values == Columns(columns)
    IN Run("update", "Update", b,
           <<"UPDATE", " ", b.table, " ", "SET", " ">>
               \o JoinWith([i \in 1..Len(values) |-> values[i][1] \o <<" ", "=", " ", "?">>],
                           <<",", " ">>)
               \o <<" ">> \o to_sql(b, "Update"),
           [i \in 1..Len(values) |-> values[i][2]] \o get_bindings(b), answer)

\* Builder::delete
delete(b, answer) == Run("delete", "Delete", b, to_sql(b, "Delete"), get_bindings(b), answer)

\* Builder::truncate
truncate(b, answer) ==
    Run("truncate", "Truncate", b, <<"TRUNCATE", " ", "TABLE", " ", b.table>>, <<>>, answer)

\* connection::setup: the pool is set when the driver could be linked and no
\* pool was set before.
Setup ==
    /\ \E linked \in BOOLEAN :
         pool' = IF linked /\ pool = "uninit" THEN "ready" ELSE pool
    /\ UNCHANGED <<stack, dialect, panicked, db, sent, relVars, getVars, mutVars, termVars, bridgeVars, pureVars, groupVars, migVars, createVars, schemaVars>>

\* A terminal method called on the builder: r is its outcome; keeps tells
\* whether the method only borrowed the builder (&self) or took it (self).
Terminal(op, r, keeps) ==
    /\ alive
    /\ Len(r.sent) <= MaxSent
    /\ sent' = r.sent
    /\ term' = [op |-> op, res |-> r.res]
    /\ alive' = keeps
    /\ UNCHANGED <<stack, dialect, panicked, db, pool, relVars, getVars, mutVars, bridgeVars, pureVars, groupVars, migVars, createVars, schemaVars>>

NewColumns == << <<"name", [ty |-> "str", v |-> "x"]>> >>

BuilderGet == \E a \in Answers("get") : Terminal("get", select(cur, a), FALSE)
BuilderFirst == \E a \in Answers("first") : Terminal("first", first(cur, a), FALSE)
BuilderCount == \E a \in Answers("count") : Terminal("count", count(cur, a), FALSE)
BuilderInsert == \E a \in Answers("insert") : Terminal("insert", insert(cur, NewColumns, a), TRUE)
UpdateInputs ==
    { NewColumns,
      << <<"status", [ty |-> "str", v |-> "done"]>>, <<"age", [ty |-> "i32", v |-> "30"]>> >> }
BuilderUpdate ==
    \E a \in Answers("update"), columns \in UpdateInputs :
        Terminal("update", update(cur, columns, a), FALSE)
BuilderDelete == \E a \in Answers("delete") : Terminal("delete", delete(cur, a), FALSE)
BuilderTruncate == \E a \in Answers("truncate") : Terminal("truncate", truncate(cur, a), FALSE)
BuilderIncrement ==
    \E a \in Answers("increment") :
        Terminal("increment", increment(cur, "age", [ty |-> "u64", v |-> "1"], a), FALSE)

TerminalStep ==
    \/ BuilderGet
    \/ BuilderFirst
    \/ BuilderCount
    \/ BuilderInsert
    \/ BuilderUpdate
    \/ BuilderDelete
    \/ BuilderTruncate
    \/ BuilderIncrement

\* Builder::where, at most MaxTermClauses times
TermWhere == Where /\ Len(cur.where) < MaxTermClauses

InitTerm ==
    /\ stack = <<new("users")>>
    /\ dialect \in Dialects
    /\ panicked = FALSE
    /\ db = EmptyDb
    /\ pool = "uninit"
    /\ sent = <<>>
    /\ IdleRel
    /\ IdleGet
    /\ IdleMut
    /\ IdleTerm
    /\ IdleBridge
    /\ IdleSchema
    /\ IdleCreate
    /\ IdleMig
    /\ IdleGroup
    /\ IdlePure

NextTerm ==
    \/ Setup
    \/ TermWhere
    \/ Join
    \/ OrderBy
    \/ Limit
    \/ Offset
    \/ TerminalStep

SpecTerm == InitTerm /\ [][NextTerm]_vars

\* ------------------------------------------------------------------------
\* Properties of the terminal methods
\* ------------------------------------------------------------------------
\* C12: insert on a builder that has a limit, a join or a predicate returns
\* InvalidQuery and sends nothing, whether or not a connection could be had:
\* the test comes before every database interaction.
C12_InsertRefusesBuiltQuery ==
    [][(BuilderInsert /\ (cur.limit.some \/ cur.join # <<>> \/ cur.where # <<>>))
        => (term'.res = "InvalidQuery" /\ sent' = sent)]_vars

\* An insert refused for its predicate alone, with no pool to connect to.
C12_Witness ==
    /\ term = [op |-> "insert", res |-> "InvalidQuery"]
    /\ pool = "uninit"
    /\ cur.where # <<>>
    /\ ~cur.limit.some /\ cur.join = <<>> /\ cur.order = <<>>

\* C13: update and delete on a builder that combines a limit or an offset with
\* a join return InvalidQuery and send nothing.
C13_UpdateDeleteRefuseLimitedJoin ==
    [][((BuilderUpdate \/ BuilderDelete)
            /\ (cur.limit.some \/ cur.offset.some) /\ cur.join # <<>>)
        => (term'.res = "InvalidQuery" /\ sent' = sent)]_vars

\* The JOIN and WHERE text of the SELECT rendering of b.
JoinAndWhereText(b) ==
    LET bare == [b EXCEPT !.order = <<>>, !.limit = None, !.offset = None]
    IN SubSeq(to_sql(bare, "Select"), 8, Len(to_sql(bare, "Select")))

\* C14: the statement count() sends is SELECT COUNT(*) FROM <table> followed by
\* the JOIN and WHERE text of the SELECT rendering, and has no ORDER BY, LIMIT
\* or OFFSET whatever was set on the builder.
C14_CountHasNoOrderLimitOffset ==
    [][(BuilderCount /\ sent' # sent)
        => LET sql == sent'[Len(sent')].sql
           IN /\ sql = <<"SELECT", " ", "COUNT(*)", " ", "FROM", " ", cur.table>>
                        \o JoinAndWhereText(cur)
              /\ \A k \in 1..Len(sql) : sql[k] \notin {"ORDER BY", "LIMIT", "OFFSET"}]_vars

\* C15: once a terminal method has run on the builder, no fluent and no
\* terminal method runs on that builder any more.
C15_TerminalConsumesBuilder ==
    [][term.op # "none"
        => ~(TerminalStep \/ TermWhere \/ Join \/ OrderBy \/ Limit \/ Offset)]_vars

\* C16: while the pool is not initialized, every terminal method on a builder
\* it accepts returns the Connection error and sends nothing.
C16_UninitializedPoolIsConnectionError ==
    [][(TerminalStep /\ pool = "uninit" /\ ~(BuilderInsert /\ insert_invalid(cur)))
        => (term'.res = "Connection" /\ sent' = sent)]_vars

\* An increment or a get refused because the pool was never set up.
C16_Witness ==
    /\ pool = "uninit"
    /\ term.op \in {"increment", "get"}
    /\ term.res = "Connection"
    /\ sent = <<>>

\* The names that stand for columns in the statements of this model.
Identifiers == ColumnNames \cup {"posts", "users.id", "posts.user_id", "name"}

\* Every column reference of a text stands between the quotes of the dialect.
Quoted(text) ==
    \A k \in 1..Len(text) :
        text[k] \in Identifiers =>
            /\ 1 < k /\ k < Len(text)
            /\ <<text[k - 1], text[k], text[k + 1]>> = escape(text[k])

\* C20: in every statement the builder sends, every column reference (of the
\* predicates, of order_by, of increment, and both operands of every join
\* condition) is quoted with the quoting of the active dialect.
C20_EveryColumnQuoted == \A i \in 1..Len(sent) : Quoted(sent[i].sql)

\* ------------------------------------------------------------------------
\* The value bridge (value.rs, value/de.rs, types/*.rs)
\* ------------------------------------------------------------------------
\* A Rust value is a record with its kind in ty: a primitive [ty, v] with the
\* payload written as text, [ty |-> "option", val], [ty |-> "seq", items], a
\* tagged type [ty |-> "Uuid" / "DateTime" / "Json" / "Hashed", v], an enum
\* value [ty |-> "enum", ...], a struct or a model [ty, fields].  A type is a
\* record with its kind in k.
MaxItems == 1

SignedTypes == {"i8", "i16", "i32", "i64"}
UnsignedTypes == {"u8", "u16", "u32", "u64"}
IntTypes == SignedTypes \cup UnsignedTypes

\* The numerals of the model, in ascending order, and the range of every
\* integer type as an interval of positions in that order.
Numerals ==
    << "-9223372036854775808", "-2147483648", "-32768", "-128", "0", "127", "255",
       "32767", "65535", "2147483647", "4294967295", "9223372036854775807",
       "18446744073709551615" >>
RangeOf ==
    [i8 |-> <<4, 6>>, i16 |-> <<3, 8>>, i32 |-> <<2, 10>>, i64 |-> <<1, 12>>,
     u8 |-> <<5, 7>>, u16 |-> <<5, 9>>, u32 |-> <<5, 11>>, u64 |-> <<5, 13>>]
Fits(ty, p) ==
    \E k \in RangeOf[ty][1]..RangeOf[ty][2] : Numerals[k] = p

\* Result<_, rbs::Error>
Ok(v) == [ok |-> TRUE, v |-> v]
Err(e) == [ok |-> FALSE, err |-> e]

Ext(tag, data) == [t |-> "Ext", tag |-> tag, data |-> data]
Map(pairs) == [t |-> "Map", pairs |-> pairs]

\* to_string of the wrapped uuid::Uuid, fastdate::DateTime (given by its
\* milliseconds) and serde_json::Value.
UuidText == [nil |-> "00000000-0000-0000-0000-000000000000",
             v4 |-> "67e55044-10b1-426f-9247-bb680e5fe0c8"]
DateText(ms) ==
    CASE ms = "0" -> "1970-01-01T00:00:00Z"
      [] ms = "127" -> "1970-01-01T00:00:00.127Z"
JsonText(doc) ==
    CASE doc.j = "null" -> "null"
      [] doc.j = "number" -> doc.n
      [] doc.j = "object" -> "{hello:world}"

\* SerializeVec / SerializeTupleVariant / DefaultSerializeMap: the first
\* failing element fails the whole value.
Collected(rs) == [i \in 1..Len(rs) |-> rs[i].v]
Failed(rs) == \E i \in 1..Len(rs) : ~rs[i].ok
FirstError(rs) == rs[CHOOSE i \in 1..Len(rs) : ~rs[i].ok /\ \A j \in 1..(i - 1) : rs[j].ok]

\* SerializeVec::end
SerializeVec_end(rs) ==
    IF Failed(rs) THEN FirstError(rs) ELSE Ok(Array(Collected(rs)))

\* SerializeTupleVariant::end
SerializeTupleVariant_end(idx, rs) ==
    IF Failed(rs) THEN FirstError(rs)
    ELSE Ok(Array(<<Scalar("U32", idx), Array(Collected(rs))>>))

\* DefaultSerializeMap as SerializeStruct / SerializeStructVariant:
\* serialize_field pushes (String(key), value), end wraps the pairs in a Map.
DefaultSerializeMap_end(fields, rs) ==
    IF Failed(rs) THEN FirstError(rs)
    ELSE Ok(Map([i \in 1..Len(fields) |-> <<Scalar("String", fields[i].name), rs[i].v>>]))

\* Serializer::serialize_newtype_struct
serialize_newtype_struct(name, r) == IF r.ok THEN Ok(Ext(name, r.v)) ELSE r

\* Serializer::serialize_newtype_variant
serialize_newtype_variant(name, variant) ==
    Err(<<"Ensemble does not support enums with values", name, variant>>)

\* Field::new: a field called password is hidden whatever its attributes say.
Field_new(f) == [f EXCEPT !.hide = f.hide \/ f.name = "password"]

\* impl_serialize, the fields written for the database: every field that is
\* not a relationship (the models here have none).
serialize_for_db(m) == m.fields

\* impl_serialize, the fields written for any other serializer.
general_serialize_HideOnly(m) ==
    SelectSeq(m.fields, LAMBDA f : ~Field_new(f).hide)
general_serialize(m) ==
    SelectSeq(m.fields, LAMBDA f : ~(Field_new(f).hide /\ ~Field_new(f).show))

\* The variant name serde hands to serialize_unit_variant: the name written in
\* the enum, or its serde(rename_all = "snake_case") form.
SnakeCase == [Ok |-> "ok", Error |-> "error", ThirdThing |-> "third_thing"]
serde_name(e) == IF e.rename_all = "snake_case" THEN SnakeCase[e.variant] ELSE e.variant

\* impl serde::Serializer for Serializer, applied through the Serialize
\* implementation of the value (derived, or written in types/*.rs).
RECURSIVE serialize(_)
SerializeAll(xs) == [i \in 1..Len(xs) |-> serialize(xs[i])]
SerializeFields(fs) == [i \in 1..Len(fs) |-> serialize(fs[i].x)]
serialize_enum(e) ==
    CASE e.shape = "unit" -> Ok(Scalar("String", serde_name(e)))
      [] e.shape = "newtype" -> serialize_newtype_variant(e.name, e.variant)
      [] e.shape = "tuple" -> SerializeTupleVariant_end(e.idx, SerializeAll(e.fields))
      [] e.shape = "struct" -> DefaultSerializeMap_end(e.fields, SerializeFields(e.fields))
serialize(x) ==
    CASE x.ty \in IntTypes \cup {"str"} -> Ok(for_db(x))
      [] x.ty = "bool" -> Ok(Scalar("Bool", x.v))
      [] x.ty = "f32" -> Ok(Scalar("F32", x.v))
      [] x.ty = "f64" -> Ok(Scalar("F64", x.v))
      [] x.ty = "char" -> Ok(Scalar("String", x.v))
      [] x.ty = "option" -> IF x.val.some THEN serialize(x.val.v) ELSE Ok(Null)
      [] x.ty = "seq" -> SerializeVec_end(SerializeAll(x.items))
      [] x.ty = "Uuid" ->
            serialize_newtype_struct("Uuid", Ok(Scalar("String", UuidText[x.v])))
      [] x.ty = "DateTime" ->
            serialize_newtype_struct("DateTime", Ok(Scalar("String", DateText(x.v))))
      [] x.ty = "Json" ->
            serialize_newtype_struct("Json", Ok(Scalar("String", JsonText(x.doc))))
      [] x.ty = "Hashed" -> Ok(Scalar("String", x.v))
      [] x.ty = "enum" -> serialize_enum(x)
      [] x.ty = "struct" -> DefaultSerializeMap_end(x.fields, SerializeFields(x.fields))
      [] x.ty = "model" ->
            DefaultSerializeMap_end(serialize_for_db(x), SerializeFields(serialize_for_db(x)))

\* ValueDeserializer::deserialize_any: the value the visitor is shown; an
\* Ext shows what it wraps.
RECURSIVE deserialize_any(_)
deserialize_any(v) == IF v.t = "Ext" THEN deserialize_any(v.data) ELSE v

IntKinds == {"I32", "I64", "U32", "U64"}

\* serde's visitor of an integer type: any integer that fits the type.
visit_int(ty, a) ==
    IF a.t \in IntKinds /\ Fits(ty, a.v)
    THEN Ok([ty |-> ty, v |-> a.v])
    ELSE Err("invalid type or value")

\* serde's visitors of bool, f32 / f64, String and char.
visit_bool(a) ==
    IF a.t = "Bool" THEN Ok([ty |-> "bool", v |-> a.v]) ELSE Err("invalid type")
visit_float(ty, a) ==
    IF a.t \in {"F32", "F64"} \cup IntKinds
    THEN Ok([ty |-> ty, v |-> a.v])
    ELSE Err("invalid type")
visit_string(a) ==
    IF a.t = "String" THEN Ok([ty |-> "str", v |-> a.v]) ELSE Err("invalid type")
Chars == {"a", "z"}
visit_char(a) ==
    IF a.t = "String" /\ a.v \in Chars
    THEN Ok([ty |-> "char", v |-> a.v])
    ELSE Err("invalid type or value")

\* uuid::Uuid::deserialize: the text parsed back.
Uuid_deserialize(a) ==
    IF a.t = "String" /\ \E u \in DOMAIN UuidText : UuidText[u] = a.v
    THEN Ok([ty |-> "Uuid", v |-> CHOOSE u \in DOMAIN UuidText : UuidText[u] = a.v])
    ELSE Err("invalid uuid")

\* Deserialize for DateTime: milliseconds of any integer kind, or the text.
DateTime_deserialize(a) ==
    CASE a.t \in {"I32", "U32", "I64"} -> Ok([ty |-> "DateTime", v |-> a.v])
      [] a.t = "U64" ->
            IF Fits("i64", a.v) THEN Ok([ty |-> "DateTime", v |-> a.v])
            ELSE Err("out of range")
      [] a.t = "String" ->
            IF \E ms \in {"0", "127"} : DateText(ms) = a.v
            THEN Ok([ty |-> "DateTime", v |-> CHOOSE ms \in {"0", "127"} : DateText(ms) = a.v])
            ELSE Err("invalid date")
      [] OTHER -> Err("unsupported type DateTime")

\* serde_json::from_str
from_str(js) ==
    CASE js = "null" -> Ok([j |-> "null"])
      [] js = "{hello:world}" -> Ok([j |-> "object"])
      [] \E k \in 1..Len(Numerals) : Numerals[k] = js -> Ok([j |-> "number", n |-> js])
      [] OTHER -> Err("invalid json")

\* Deserialize for Json: the text of a String, the display of a scalar.
WrapJson(r) == IF r.ok THEN Ok([ty |-> "Json", doc |-> r.v]) ELSE r
Json_deserialize(a) ==
    CASE a.t \in {"String", "Null", "Bool", "F32", "F64"} \cup IntKinds -> WrapJson(from_str(a.v))

\* Deserialize for Hashed, deserializing_from_db: the stored hash is kept.
Hashed_deserialize(a) ==
    IF a.t = "String" THEN Ok([ty |-> "Hashed", v |-> a.v]) ELSE Err("invalid type")

\* Deserialize of a value of type t from the database value v.
RECURSIVE deserialize(_, _)

\* ValueDeserializer::deserialize_option: None for Null itself, else Some.
WrapSome(r) == IF r.ok THEN Ok([ty |-> "option", val |-> Some(r.v)]) ELSE r
deserialize_option(t, v) ==
    IF v.t = "Null" THEN Ok([ty |-> "option", val |-> None])
    ELSE WrapSome(deserialize(t.of, v))

\* deserialize_any on an Array, for the visitor of Vec<T>.
WrapSeq(rs) ==
    IF Failed(rs) THEN FirstError(rs) ELSE Ok([ty |-> "seq", items |-> Collected(rs)])
visit_seq(t, a) ==
    IF a.t = "Array"
    THEN WrapSeq([i \in 1..Len(a.items) |-> deserialize(t.of, a.items[i])])
    ELSE Err("invalid type")

\* deserialize_any on a Map, for the derived visitor of a struct: every
\* field from the pair with its name; a missing Option field is None.
HasKey(pairs, name) == \E i \in 1..Len(pairs) : pairs[i][1] = Scalar("String", name)
ValueAt(pairs, name) ==
    pairs[CHOOSE i \in 1..Len(pairs) : pairs[i][1] = Scalar("String", name)][2]
visit_field(f, pairs) ==
    IF HasKey(pairs, f.name) THEN deserialize(f.t, ValueAt(pairs, f.name))
    ELSE IF f.t.k = "option" THEN Ok([ty |-> "option", val |-> None])
    ELSE Err("missing field")
WrapStruct(t, rs) ==
    IF Failed(rs) THEN FirstError(rs)
    ELSE Ok([ty |-> "struct",
             fields |-> [i \in 1..Len(rs) |-> [name |-> t.fields[i].name, x |-> rs[i].v]]])
visit_map(t, a) ==
    IF a.t = "Map"
    THEN WrapStruct(t, [i \in 1..Len(t.fields) |-> visit_field(t.fields[i], a.pairs)])
    ELSE Err("invalid type")

deserialize(t, v) ==
    CASE t.k \in IntTypes -> visit_int(t.k, deserialize_any(v))
      [] t.k = "bool" -> visit_bool(deserialize_any(v))
      [] t.k \in {"f32", "f64"} -> visit_float(t.k, deserialize_any(v))
      [] t.k = "str" -> visit_string(deserialize_any(v))
      [] t.k = "char" -> visit_char(deserialize_any(v))
      [] t.k = "option" -> deserialize_option(t, v)
      [] t.k = "seq" -> visit_seq(t, deserialize_any(v))
      [] t.k = "Uuid" -> Uuid_deserialize(deserialize_any(v))
      [] t.k = "DateTime" -> DateTime_deserialize(deserialize_any(v))
      [] t.k = "Json" -> Json_deserialize(deserialize_any(v))
      [] t.k = "Hashed" -> Hashed_deserialize(deserialize_any(v))
      [] t.k = "struct" -> visit_map(t, deserialize_any(v))

\* serde_json::to_value of a field value.
to_json(x) ==
    CASE x.ty \in IntTypes -> [j |-> "number", n |-> x.v]
      [] x.ty = "str" -> [j |-> "string", s |-> x.v]

\* Model::json: serde_json::to_value(self), the fields of general_serialize.
json(m) ==
    [j |-> "object",
     pairs |-> [i \in 1..Len(general_serialize(m)) |->
                  <<general_serialize(m)[i].name, to_json(general_serialize(m)[i].x)>>]]

\* The types and the values the bridge is exercised with.
OptionOf(t) == [k |-> "option", of |-> t]
SeqOf(t) == [k |-> "seq", of |-> t]
BaseTypes ==
    {[k |-> n] : n \in IntTypes \cup {"bool", "f32", "f64", "str", "char",
                                      "Uuid", "DateTime", "Json", "Hashed"}}
FieldTypes ==
    BaseTypes
        \cup {OptionOf(t) : t \in BaseTypes}
        \cup {SeqOf(t) : t \in BaseTypes}
        \cup {OptionOf(OptionOf([k |-> "i8"])), OptionOf(SeqOf([k |-> "u8"])),
              SeqOf(OptionOf([k |-> "str"])), OptionOf(OptionOf([k |-> "Uuid"]))}

Samples(k) ==
    CASE k \in IntTypes -> {Numerals[RangeOf[k][1]], Numerals[RangeOf[k][2]]}
      [] k = "bool" -> {"true", "false"}
      [] k \in {"f32", "f64"} -> {"1.5", "-0.25"}
      [] k = "str" -> {"", "hello"}
      [] k = "char" -> Chars
      [] k = "Uuid" -> DOMAIN UuidText
      [] k = "DateTime" -> {"0", "127"}
      [] k = "Json" -> {[j |-> "null"], [j |-> "object"], [j |-> "number", n |-> "127"]}
      [] k = "Hashed" -> {"2cf24dba5fb0a30e", "486ea46224d1bb4f"}

RECURSIVE Values(_)
Values(t) ==
    CASE t.k = "option" ->
            {[ty |-> "option", val |-> None]}
                \cup {[ty |-> "option", val |-> Some(x)] : x \in Values(t.of)}
      [] t.k = "seq" ->
            {[ty |-> "seq", items |-> s] :
                s \in UNION {[1..n -> Values(t.of)] : n \in 0..MaxItems}}
      [] t.k = "Json" -> {[ty |-> "Json", doc |-> d] : d \in Samples("Json")}
      [] OTHER -> {[ty |-> t.k, v |-> p] : p \in Samples(t.k)}

\* struct Record { a: T }
RecordType(t) == [k |-> "struct", fields |-> <<[name |-> "a", t |-> t]>>]
Record(x) == [ty |-> "struct", fields |-> <<[name |-> "a", x |-> x]>>]
Records ==
    UNION {{[kind |-> "record", type |-> RecordType(t), x |-> Record(x)] : x \in Values(t)} :
            t \in FieldTypes}

\* enum Status { Ok, Error, ThirdThing }, with and without rename_all, and an
\* enum with a newtype, a tuple and a struct variant.
Enum(name, idx, variant, shape, rename_all, fields) ==
    [ty |-> "enum", name |-> name, idx |-> idx, variant |-> variant, shape |-> shape,
     rename_all |-> rename_all, fields |-> fields]
EnumValues ==
    {Enum("Status", "0", "Ok", "unit", r, <<>>) : r \in {"none", "snake_case"}}
        \cup {Enum("Status", "1", "Error", "unit", r, <<>>) : r \in {"none", "snake_case"}}
        \cup {Enum("Status", "2", "ThirdThing", "unit", r, <<>>) : r \in {"none", "snake_case"}}
        \cup {Enum("Shape", "0", "Circle", "newtype", "none", <<x>>) :
                x \in Values([k |-> "u8"])}
        \cup {Enum("Shape", "1", "Rect", "tuple", "none", <<x, y>>) :
                x \in Values([k |-> "u8"]), y \in Values([k |-> "u8"])}
        \cup {Enum("Shape", "2", "Square", "struct", "none", <<[name |-> "side", x |-> x]>>) :
                x \in Values([k |-> "u8"])}
Enums == {[kind |-> "enum", x |-> e] : e \in EnumValues}

\* struct MyModel { id: u8, name: String, password: String } with the hide
\* and show attributes written on name and password.
Field(name, hide, show, x) == [name |-> name, hide |-> hide, show |-> show, x |-> x]
MyModels ==
    {[ty |-> "model",
      fields |-> <<Field("id", FALSE, FALSE, id),
                   Field("name", h, s, [ty |-> "str", v |-> n]),
                   Field("password", FALSE, ps, [ty |-> "str", v |-> pw])>>] :
        id \in Values([k |-> "u8"]), h \in BOOLEAN, s \in BOOLEAN,
        n \in {"JSON Test", "other"}, ps \in BOOLEAN, pw \in {"secret", "hunter2"}}
Models == {[kind |-> "model", x |-> m] : m \in MyModels}

\* value::for_db(&value)
ForDb ==
    /\ bridgeDb' = [done |-> TRUE, r |-> serialize(bridgeIn.x)]
    /\ UNCHANGED <<stack, dialect, panicked, dbVars, relVars, getVars, mutVars, termVars,
                   bridgeIn, bridgeBack, bridgeJson, pureVars, groupVars, migVars, createVars, schemaVars>>

\* Decoding the database value back into the type of the record.
Decode ==
    /\ bridgeIn.kind = "record"
    /\ bridgeDb.done
    /\ bridgeDb.r.ok
    /\ bridgeBack' = [done |-> TRUE, r |-> deserialize(bridgeIn.type, bridgeDb.r.v)]
    /\ UNCHANGED <<stack, dialect, panicked, dbVars, relVars, getVars, mutVars, termVars,
                   bridgeIn, bridgeDb, bridgeJson, pureVars, groupVars, migVars, createVars, schemaVars>>

\* model.json()
Json ==
    /\ bridgeIn.kind = "model"
    /\ bridgeJson' = [done |-> TRUE, v |-> json(bridgeIn.x)]
    /\ UNCHANGED <<stack, dialect, panicked, dbVars, relVars, getVars, mutVars, termVars,
                   bridgeIn, bridgeDb, bridgeBack, pureVars, groupVars, migVars, createVars, schemaVars>>

InitValue ==
    /\ stack = <<new("users")>>
    /\ dialect = "MySQL"
    /\ panicked = FALSE
    /\ IdleDb
    /\ IdleRel
    /\ IdleGet
    /\ IdleMut
    /\ term = NoTerminal /\ alive = TRUE
    /\ bridgeIn \in Records \cup Enums \cup Models
    /\ bridgeDb = NotRun
    /\ bridgeBack = NotRun
    /\ bridgeJson = NotRun
    /\ IdleSchema
    /\ IdleCreate
    /\ IdleMig
    /\ IdleGroup
    /\ IdlePure

NextValue ==
    \/ ForDb
    \/ Decode
    \/ Json

SpecValue == InitValue /\ [][NextValue]_vars

\* C17: decoding the database value of a record gives back the record.
C17_RoundTrip ==
    /\ (bridgeIn.kind = "record" /\ bridgeDb.done) => bridgeDb.r.ok
    /\ (bridgeIn.kind = "record" /\ bridgeBack.done) => bridgeBack.r = Ok(bridgeIn.x)

\* C19: a unit variant is encoded as its (renamed) name; a newtype, a tuple
\* and a struct variant all fail to encode.
C19_OnlyUnitVariantsEncode ==
    (bridgeIn.kind = "enum" /\ bridgeDb.done) =>
        IF bridgeIn.x.shape = "unit"
        THEN bridgeDb.r = Ok(Scalar("String", IF bridgeIn.x.rename_all = "snake_case"
                                               THEN SnakeCase[bridgeIn.x.variant]
                                               ELSE bridgeIn.x.variant))
        ELSE ~bridgeDb.r.ok

\* The fields of a model the JSON projection leaves out: hidden (by
\* attribute, or by being called password) and not marked show.
Hidden(m) ==
    {i \in 1..Len(m.fields) :
        (m.fields[i].hide \/ m.fields[i].name = "password") /\ ~m.fields[i].show}

\* The model with the value of every hidden field replaced by the empty string.
Blanked(m) ==
    [m EXCEPT !.fields = [i \in 1..Len(m.fields) |->
        IF i \in Hidden(m) THEN [m.fields[i] EXCEPT !.x = [ty |-> "str", v |-> ""]]
        ELSE m.fields[i]]]

\* C18: the database value of a model holds every field, hidden ones and
\* password included, under its name; the JSON projection holds exactly the
\* fields that are not hidden or are marked show, and is the same whatever
\* the hidden fields hold; producing either projection leaves the model and
\* the other projection as they were.
C18_HiddenFieldsStayInDatabase ==
    /\ [](bridgeIn.kind = "model" =>
            /\ bridgeDb.done =>
                /\ bridgeDb.r.ok
                /\ bridgeDb.r.v.t = "Map"
                /\ Len(bridgeDb.r.v.pairs) = Len(bridgeIn.x.fields)
                /\ \A i \in 1..Len(bridgeIn.x.fields) :
                      bridgeDb.r.v.pairs[i] = <<Scalar("String", bridgeIn.x.fields[i].name),
                                                for_db(bridgeIn.x.fields[i].x)>>
            /\ bridgeJson.done =>
                /\ {bridgeJson.v.pairs[k][1] : k \in 1..Len(bridgeJson.v.pairs)}
                      = {bridgeIn.x.fields[i].name :
                            i \in (1..Len(bridgeIn.x.fields)) \ Hidden(bridgeIn.x)}
                /\ \A k \in 1..Len(bridgeJson.v.pairs) :
                      \E i \in 1..Len(bridgeIn.x.fields) :
                          bridgeJson.v.pairs[k] = <<bridgeIn.x.fields[i].name,
                                                    to_json(bridgeIn.x.fields[i].x)>>
                /\ bridgeJson.v = json(Blanked(bridgeIn.x)))
    /\ [][/\ Json => UNCHANGED <<bridgeIn, bridgeDb>>
          /\ ForDb => UNCHANGED <<bridgeIn, bridgeJson>>]_vars

\* Both projections taken of a model whose name is hidden by attribute, whose
\* password is hidden by its name, and neither is marked show.
C18_Witness ==
    /\ bridgeIn.kind = "model"
    /\ Hidden(bridgeIn.x) = {2, 3}
    /\ bridgeIn.x.fields[2].hide
    /\ ~bridgeIn.x.fields[3].hide
    /\ bridgeDb.done
    /\ bridgeJson.done
    /\ Len(bridgeDb.r.v.pairs) = 3
    /\ Len(bridgeJson.v.pairs) = 1

\* ------------------------------------------------------------------------
\* Rendering as a function of the builder (query.rs)
\* ------------------------------------------------------------------------
\* Variant: a rendering that takes the predicates out of the builder.
Rendering_Draining(b, type) ==
    [b |-> [b EXCEPT !.where = <<>>], sql |-> to_sql(b, type), bindings |-> get_bindings(b)]

\* to_sql(&self, type) and get_bindings(&self): the text, the bindings, and
\* the builder as the two calls leave it.
Rendering(b, type) ==
    [b |-> b, sql |-> to_sql(b, type), bindings |-> get_bindings(b)]

Outcome(r) == [sql |-> r.sql, bindings |-> r.bindings]

\* The builder rendered, and rendered again as the first rendering left it.
RenderedTwice(type, once) ==
    [done |-> TRUE, type |-> type, of |-> once.b,
     first |-> Outcome(once),
     second |-> Outcome(Rendering(once.b, type)),
     after |-> Rendering(once.b, type).b]

Render ==
    /\ alive
    /\ \E type \in StatementTypes :
         rendered' = RenderedTwice(type, Rendering(cur, type))
    /\ SetCur(rendered'.after)
    /\ UNCHANGED <<dialect, panicked, dbVars, relVars, getVars, mutVars, termVars, bridgeVars, groupVars, migVars, createVars, schemaVars>>

InitPure ==
    /\ stack = <<new("users")>>
    /\ dialect \in Dialects
    /\ panicked = FALSE
    /\ Idle

\* The builder is built first and then rendered, any number of times.
NextPure ==
    \/ ~rendered.done /\ TermWhere
    \/ ~rendered.done /\ OrWhere
    \/ ~rendered.done /\ Join
    \/ ~rendered.done /\ OrderBy
    \/ ~rendered.done /\ Limit
    \/ ~rendered.done /\ Offset
    \/ Render

SpecPure == InitPure /\ [][NextPure]_vars

StatementSkeleton(text) == SelectSeq(text, LAMBDA tok : tok \in ColumnNames \cup {"name", "?"})

\* The i-th placeholder of a statement takes the i-th binding: the text has
\* the placeholders of the leading values, each after its column, then those
\* of the predicates (and after them the ORDER BY columns, which have none);
\* the bindings are the leading values, then those of the predicates.
Aligned(st, leading, leadingValues, b) ==
    /\ CountPlaceholders(st.sql) = Len(st.bindings)
    /\ StatementSkeleton(st.sql) =
            leading \o TreeSkeleton(b.where) \o [i \in 1..Len(b.order) |-> b.order[i].column[2]]
    /\ st.bindings = leadingValues \o TreeValues(b.where)

\* C26: update binds the SET values in the given column order and then the
\* predicate values, increment binds the amount and then the predicate
\* values, each to the placeholder at the same position of the text.
C26_BindingsFollowPlaceholders ==
    [][/\ \A a \in Answers("update"), columns \in UpdateInputs :
            (Terminal("update", update(cur, columns, a), FALSE) /\ sent' # sent)
                => Aligned(sent'[Len(sent')],
                           Concat([i \in 1..Len(columns) |-> <<columns[i][1], "?">>]),
                           [i \in 1..Len(columns) |-> for_db(columns[i][2])],
                           cur)
       /\ (BuilderIncrement /\ sent' # sent)
            => Aligned(sent'[Len(sent')], <<"age", "age", "?">>, <<Scalar("U64", "1")>>, cur)]_vars

\* An update of two columns sent for a builder that holds a predicate.
C26_Witness ==
    /\ term.op = "update"
    /\ cur.where # <<>>
    /\ sent # <<>>
    /\ Len(sent[Len(sent)].bindings) = 3

\* ------------------------------------------------------------------------
\* A many-to-many relationship seen from either side
\* ------------------------------------------------------------------------
\* The two sides of the users/roles relationship, and the key each side is built with.
ManySides == { <<"User", "Role">>, <<"Role", "User">> }
SideRows(local) == IF local = "User" THEN UserRows ELSE RoleRows

InitPivot ==
    /\ stack = <<new("users")>>
    /\ dialect = "MySQL"
    /\ panicked = FALSE
    /\ IdleGet
    /\ IdleMut
    /\ IdleTerm
    /\ IdleBridge
    /\ IdleSchema
    /\ IdleCreate
    /\ IdleMig
    /\ IdleGroup
    /\ IdlePure
    /\ pool \in {"uninit", "ready"}
    /\ sent = <<>>
    /\ last = NoLast
    /\ db \in { [d EXCEPT !["users"] = UserRows] : d \in FocusDbs("roles") }
    /\ \E side \in ManySides, i \in 1..2 :
         rel = BelongsToMany_build(side[1], side[2], RustKey(SideRows(side[1])[i].id),
                                   None, None, None)

NextPivot ==
    \/ RelGet
    \/ RelMatch

SpecPivot == InitPivot /\ [][NextPivot]_vars

\* The model types a relationship can join.
ModelNames == DOMAIN TABLE_NAME

\* C30: a many-to-many relationship built without explicit names has the pivot
\* table name its mirror image BelongsToMany<Related, Local> has (and so has
\* its model type paired with any other), and after any steps taken on the
\* relationship its pivot table name, foreign key and local key are still the
\* ones build resolved.
C30_PivotNameSymmetricAndFixed ==
    LET built == BelongsToMany_build(rel.local, rel.related, rel.value, None, None, None)
        mirror == BelongsToMany_build(rel.related, rel.local, rel.value, None, None, None)
    IN /\ \A other \in ModelNames :
            BelongsToMany_build(rel.local, other, rel.value, None, None, None).pivot_table
              = BelongsToMany_build(other, rel.local, rel.value, None, None, None).pivot_table
       /\ rel.pivot_table = mirror.pivot_table
       /\ rel.pivot_table = built.pivot_table
       /\ rel.foreign_key = built.foreign_key
       /\ rel.local_key = built.local_key

\* The roles side of the relationship, named role_user like the users side,
\* after a get has loaded its users.
C30_Witness ==
    /\ rel.kind = "BelongsToMany"
    /\ rel.local = "Role"
    /\ rel.pivot_table = "role_user"
    /\ rel.foreign_key = "user_id"
    /\ last.op = "get"
    /\ last.res = "Ok"
    /\ is_loaded(rel)

\* ------------------------------------------------------------------------
\* where_group seen as one call: what the callback returns and what the
\* parent keeps
\* ------------------------------------------------------------------------
\* Builder::or_where on a builder that has a predicate
q_or_where(b, column, op, value) ==
    [b EXCEPT !.where = Append(@, Simple(escape(column), "OR", OperatorText(op), Some(value)))]

\* The callbacks handed to where_group, each applied to the fresh builder b it receives.
Callbacks == {"nothing", "where", "where_or_where", "limit", "decorated", "nested"}
RunCallback(c, b) ==
    LET w == q_where(b, "age", ">", [ty |-> "i32", v |-> "18"])
    IN CASE c = "nothing" -> b
         [] c = "where" -> w
         [] c = "where_or_where" -> q_or_where(w, "status", "=", Scalar("String", "pending"))
         [] c = "limit" -> q_limit(w, 5)
         [] c = "decorated" ->
              q_with(q_offset(q_limit(q_order_by(
                  q_join(w, "posts", "users.id", "=", "posts.user_id"), "age", "desc"), 5), 2),
                  {"posts"})
         [] c = "nested" ->
              where_group(w, q_where(new(w.table), "status", "=", [ty |-> "str", v |-> "active"]))

\* The builders where_group is called on: a fresh one, and one that already
\* joins, orders, limits, skips and eager-loads.
GroupParents ==
    { new("users"),
      q_with(q_offset(q_limit(q_order_by(
          q_join(new("users"), "posts", "users.id", "=", "posts.user_id"), "id", "asc"), 10), 20),
          {"team"}) }

\* Builder::where_group with the callback c
WhereGroup ==
    /\ Room
    /\ \E c \in Callbacks :
         LET callback == RunCallback(c, new(cur.table))
         IN /\ StackNodes(stack) + NodeCount(callback.where) < MaxClauses
            /\ SetCur(where_group(cur, callback))
            /\ grouped' = [done |-> TRUE, parent |-> cur, callback |-> callback]
    /\ UNCHANGED <<dialect, panicked, dbVars, relVars, getVars, mutVars, termVars, bridgeVars, pureVars, migVars, createVars, schemaVars>>

InitGroup ==
    /\ dialect = "MySQL"
    /\ stack \in { <<b>> : b \in GroupParents }
    /\ panicked = FALSE
    /\ Idle

NextGroup ==
    \/ Where
    \/ OrWhere
    \/ WhereGroup

SpecGroup == InitGroup /\ [][NextGroup]_vars

\* C27: a where_group call appends exactly one node to the parent's
\* predicates, a group joined with AND that holds the predicates of the
\* builder the callback returned, and leaves the parent's earlier predicates,
\* table, joins, orderings, limit, offset and eager-load set as they were,
\* whatever joins, orderings, limit, offset or eager loads the callback asked for.
C27_WhereGroupTouchesOnlyPredicates ==
    [][WhereGroup =>
         LET parent == grouped'.parent
             callback == grouped'.callback
             after == stack'[Len(stack')]
         IN /\ parent = cur
            /\ Len(after.where) = Len(parent.where) + 1
            /\ SubSeq(after.where, 1, Len(parent.where)) = parent.where
            /\ after.where[Len(after.where)] = Group(callback.where, "AND")
            /\ after.table = parent.table
            /\ after.join = parent.join
            /\ after.order = parent.order
            /\ after.limit = parent.limit
            /\ after.offset = parent.offset
            /\ after.eager_load = parent.eager_load]_vars

\* A fresh parent with one predicate right after a where_group whose callback
\* also joined, ordered, limited, skipped and asked for an eager load.
C27_Witness ==
    /\ grouped.done
    /\ cur = where_group(grouped.parent, grouped.callback)
    /\ grouped.callback.join # <<>>
    /\ grouped.callback.order # <<>>
    /\ grouped.callback.limit.some
    /\ grouped.callback.offset.some
    /\ grouped.callback.eager_load # {}
    /\ grouped.callback.where # <<>>
    /\ Len(grouped.parent.where) = 1
    /\ cur.join = <<>>
    /\ ~cur.limit.some

\* ------------------------------------------------------------------------
\* builder.rs: the builder of BelongsTo, HasMany and BelongsToMany, its
\* predicates and their rendering
\* ------------------------------------------------------------------------
\* builder.rs: Builder::or_where once its assertion has passed
b_or_where(b, column, op, value) ==
    [b EXCEPT !.where = Append(@, Simple(<<column>>, "OR", OperatorText(op), Some(value)))]

\* builder.rs: Builder::where_group with the builder the callback returned
b_where_group(b, callback) == [b EXCEPT !.where = Append(@, Group(callback.where, "AND"))]

\* builder.rs: Where::to_sql
b_Where_to_sql(w, add_boolean) ==
    LET ph == IF ~w.value.some THEN <<>>
              ELSE IF as_array(w.value.v).some
                   THEN <<"(">> \o JoinWith([i \in 1..Len(as_array(w.value.v).v) |-> <<"?">>],
                                            <<",", " ">>) \o <<")">>
                   ELSE <<"?">>
        sql == w.column \o <<" ", w.operator, " ">> \o ph
    IN IF add_boolean THEN sql \o <<" ", w.boolean, " ">> ELSE sql

RECURSIVE b_WhereClause_to_sql(_, _)
\* builder.rs: WhereClause::to_sql
b_WhereClause_to_sql(c, add_boolean) ==
    IF c.kind = "Simple" THEN b_Where_to_sql(c, add_boolean)
    ELSE LET sql == JoinWith([i \in 1..Len(c.clauses) |->
                                 <<"(">> \o b_WhereClause_to_sql(c.clauses[i], FALSE) \o <<")">>],
                             <<" ", "AND", " ">>)
         IN IF add_boolean THEN <<c.boolean, " ">> \o sql ELSE sql

\* builder.rs: Builder::to_sql
b_to_sql(b, type) ==
    LET head == CASE type = "Update" -> <<>>
                  [] type = "Delete" -> <<"DELETE", " ", "FROM", " ", b.table>>
                  [] type = "Select" -> <<"SELECT", " ", "*", " ", "FROM", " ", b.table>>
                  [] type = "Count" -> <<"SELECT", " ", "COUNT(*)", " ", "FROM", " ", b.table>>
        joins == Concat([i \in 1..Len(b.join) |->
                    <<" ", b.join[i].type, " ">> \o b.join[i].column
                        \o <<" ", "ON", " ", b.join[i].first, " ", b.join[i].operator,
                             " ", b.join[i].second>>])
        wheres == IF b.where = <<>> THEN <<>>
                  ELSE <<" ", "WHERE", " ">> \o
                       Concat([i \in 1..Len(b.where) |->
                           b_WhereClause_to_sql(b.where[i], i # Len(b.where))])
        orders == IF b.order = <<>> THEN <<>>
                  ELSE <<" ", "ORDER BY", " ">> \o
                       JoinWith([i \in 1..Len(b.order) |->
                                    b.order[i].column \o <<" ", b.order[i].direction>>],
                                <<",", " ">>)
        lim == IF b.limit.some THEN <<" ", "LIMIT", " ", ToString(b.limit.v)>> ELSE <<>>
    IN head \o joins \o wheres \o orders \o lim

\* The callbacks handed to builder.rs's where_group, applied to the fresh builder b.
B_Callbacks == {"where", "where_or_where", "two_wheres"}
B_RunCallback(c, b) ==
    LET w == b_where(b, "age", ">", [ty |-> "i32", v |-> "18"])
    IN CASE c = "where" -> w
         [] c = "where_or_where" -> b_or_where(w, "status", "=", Scalar("String", "pending"))
         [] c = "two_wheres" -> b_where(w, "status", "=", [ty |-> "str", v |-> "active"])

\* builder.rs: Builder::where
B_Where ==
    /\ Room
    /\ \E in \in WhereInputs : SetCur(b_where(cur, in[1], in[2], in[3]))
    /\ UNCHANGED <<dialect, panicked, dbVars, relVars, getVars, mutVars, termVars, bridgeVars, pureVars, groupVars, migVars, createVars, schemaVars>>

\* builder.rs: Builder::or_where
B_OrWhere ==
    /\ Room
    /\ \E in \in OrWhereInputs :
         IF cur.where = <<>>
         THEN panicked' = TRUE /\ UNCHANGED stack
         ELSE SetCur(b_or_where(cur, in[1], in[2], in[3])) /\ UNCHANGED panicked
    /\ UNCHANGED <<dialect, dbVars, relVars, getVars, mutVars, termVars, bridgeVars, pureVars, groupVars, migVars, createVars, schemaVars>>

\* builder.rs: Builder::where_not_null
B_WhereNotNull ==
    /\ Room
    /\ \E c \in NullColumns : SetCur(b_where_not_null(cur, c))
    /\ UNCHANGED <<dialect, panicked, dbVars, relVars, getVars, mutVars, termVars, bridgeVars, pureVars, groupVars, migVars, createVars, schemaVars>>

\* builder.rs: Builder::where_group
B_WhereGroup ==
    /\ Room
    /\ \E c \in B_Callbacks :
         LET callback == B_RunCallback(c, new(cur.table))
         IN /\ StackNodes(stack) + NodeCount(callback.where) < MaxClauses
            /\ SetCur(b_where_group(cur, callback))
    /\ UNCHANGED <<dialect, panicked, dbVars, relVars, getVars, mutVars, termVars, bridgeVars, pureVars, groupVars, migVars, createVars, schemaVars>>

InitJoined ==
    /\ dialect = "MySQL"
    /\ stack = <<new("roles")>>
    /\ panicked = FALSE
    /\ Idle

NextJoined ==
    \/ B_Where
    \/ B_OrWhere
    \/ B_WhereNotNull
    \/ B_WhereGroup

SpecJoined == InitJoined /\ [][NextJoined]_vars

\* The connectives of a text, in the order they appear.
Connectives(text) == SelectSeq(text, LAMBDA tok : tok \in {"AND", "OR"})

RECURSIVE LaterConnectives(_)
\* The connective of every predicate that has a predecessor at its level, in
\* the order of the predicates (a group's own, then its children's).
LaterConnectives(clauses) ==
    Concat([i \in 1..Len(clauses) |->
        (IF i > 1 THEN <<clauses[i].boolean>> ELSE <<>>)
        \o (IF clauses[i].kind = "Group" THEN LaterConnectives(clauses[i].clauses) ELSE <<>>)])

\* C22: in the text builder.rs renders, the connective between two
\* consecutive predicates is the connective of the later one, at the top level
\* and among the children of a group.
C22_ConnectiveOfLaterPredicate ==
    Connectives(b_to_sql(cur, "Select")) = LaterConnectives(cur.where)

\* ------------------------------------------------------------------------
\* Migrations: the Migrator, the MIGRATE_CONN slot and the migrations table
\* ------------------------------------------------------------------------
MaxRegistered == 2
MaxMigrators == 2

\* The migration types of the application (stringify!($migration)).
MigrationNames == <<"CreateUsers", "CreatePosts", "CreateRoles">>
Registrable == { MigrationNames[k] : k \in 1..MaxRegistered }
\* The arguments rollback is called with.
RollbackBatches == {1, 2}

\* Ok(()) and the values of migrations::Error
OkUnit == Ok("unit")
DatabaseError(msg) == Err([kind |-> "Database", msg |-> msg])
LockError == Err([kind |-> "Lock", msg |-> ""])
NotFoundError(name) == Err([kind |-> "NotFound", msg |-> name])
ConnectionError == Err([kind |-> "Connection", msg |-> ""])

\* One entry of the log: a statement issued on the migrator's connection, or a call of up() / down().
LogEntry(op, name, batch, ok) == [op |-> op, name |-> name, batch |-> batch, ok |-> ok]

StoredMigration(id, batch, migration) == [id |-> id, batch |-> batch, migration |-> migration]

RECURSIVE MaxOf(_)
MaxOf(ns) == IF ns = {} THEN 0
             ELSE LET n == CHOOSE n \in ns : \A other \in ns : other <= n IN n

\* The database executing one statement of the migrator's connection.
\* fails: the statement is answered with an error and changes nothing.
ConnExec(d, stmt, row, fails) ==
    IF fails THEN d
    ELSE CASE stmt = "begin" -> [d EXCEPT !.open = TRUE]
           [] stmt = "commit" -> [rows |-> d.work, work |-> d.work, open |-> FALSE]
           [] stmt = "rollback" -> [rows |-> d.rows, work |-> d.rows, open |-> FALSE]
           [] stmt = "insert" ->
                LET id == 1 + MaxOf({ d.work[k].id : k \in 1..Len(d.work) })
                    work == Append(d.work, StoredMigration(id, row.batch, row.migration))
                IN IF d.open THEN [d EXCEPT !.work = work]
                   ELSE [rows |-> work, work |-> work, open |-> FALSE]
           [] stmt = "delete" ->
                LET work == SelectSeq(d.work, LAMBDA m : m.id # row.id)
                IN IF d.open THEN [d EXCEPT !.work = work]
                   ELSE [rows |-> work, work |-> work, open |-> FALSE]

\* Variant: no migration counts as recorded.
IsRecorded_Never(state, name) == FALSE

\* self.state.iter().any(|m| &m.migration == name)
IsRecorded(state, name) == \E k \in 1..Len(state) : state[k].migration = name

\* Migrator::Migrator_pending (the names)
Migrator_pending(registered, state) ==
    { registered[k] : k \in { j \in 1..Len(registered) : ~IsRecorded(state, registered[j]) } }

\* What the migrator before this one was asked to do and how it ended.
PreviousMigrator ==
    IF mig.pc = "none" THEN [op |-> "none", ok |-> FALSE, registered |-> <<>>]
    ELSE [op |-> mig.op, ok |-> mig.pc = "returned" /\ mig.res.ok, registered |-> mig.migrations]

\* Migrator::new: Self { state, batch, connection, migrations: Vec::new() }
NewMigrator(state, previous) ==
    [pc |-> "created", op |-> "new", migrations |-> <<>>, state |-> state, loaded |-> state,
     batch |-> 1 + MaxOf({ state[k].batch : k \in 1..Len(state) }),
     i |-> 0, todo |-> <<>>, upres |-> OkUnit, res |-> OkUnit, previous |-> previous]

Return(res) == [mig EXCEPT !.pc = "returned", !.res = res]

\* The migration the loop of run is at.
CurrentMigration == mig.migrations[mig.i]

\* schema.rs: Schema::create with the connection slot s; fails: CREATE TABLE is refused.
Schema_create_schema_rs(s, fails) ==
    IF ~s.some THEN [res |-> LockError, slot |-> s]
    ELSE IF fails THEN [res |-> DatabaseError("create"), slot |-> None]
    ELSE [res |-> OkUnit, slot |-> s]

\* schema/mod.rs: Schema::create with the connection slot s; fails: CREATE TABLE is refused.
Schema_create_mod_rs(s, fails) ==
    IF ~s.some THEN [res |-> LockError, slot |-> s]
    ELSE IF fails THEN [res |-> DatabaseError("create"), slot |-> s]
    ELSE [res |-> OkUnit, slot |-> s]

\* The bodies of up(): nothing to do, an error of its own, or one
\* Schema::create whose result is returned.
UpBodies == {"ok", "err", "create", "create_refused", "mod_create", "mod_create_refused"}
up(body, s) ==
    CASE body = "ok" -> [res |-> OkUnit, slot |-> s]
      [] body = "err" -> [res |-> DatabaseError("up"), slot |-> s]
      [] body = "create" -> Schema_create_schema_rs(s, FALSE)
      [] body = "create_refused" -> Schema_create_schema_rs(s, TRUE)
      [] body = "mod_create" -> Schema_create_mod_rs(s, FALSE)
      [] body = "mod_create_refused" -> Schema_create_mod_rs(s, TRUE)

\* Migrator::new: take a connection, create the table if needed, load the state.
MigratorNew ==
    /\ mig.pc \in {"none", "returned"}
    /\ made < MaxMigrators
    /\ made' = made + 1
    /\ log' = <<>>
    /\ mdb' = [rows |-> mdb.rows, work |-> mdb.rows, open |-> FALSE]
    /\ \E outcome \in {"ok", "connection", "database"} :
         mig' = CASE outcome = "ok" -> NewMigrator(mdb.rows, PreviousMigrator)
                  [] outcome = "connection" ->
                       [NewMigrator(<<>>, PreviousMigrator) EXCEPT !.pc = "returned", !.res = ConnectionError]
                  [] outcome = "database" ->
                       [NewMigrator(<<>>, PreviousMigrator) EXCEPT !.pc = "returned", !.res = DatabaseError("state")]
    /\ UNCHANGED <<stack, dialect, panicked, dbVars, relVars, getVars, mutVars, termVars, bridgeVars, pureVars, groupVars, slot, createVars, schemaVars>>

\* Migrator::register
MigratorRegister ==
    /\ mig.pc = "created"
    /\ Len(mig.migrations) < MaxRegistered
    /\ \E name \in Registrable :
         mig' = IF \E k \in 1..Len(mig.migrations) : mig.migrations[k] = name
                THEN [mig EXCEPT !.pc = "panicked"]
                ELSE [mig EXCEPT !.migrations = Append(@, name)]
    /\ UNCHANGED <<stack, dialect, panicked, dbVars, relVars, getVars, mutVars, termVars, bridgeVars, pureVars, groupVars, slot, mdb, log, made, createVars, schemaVars>>

\* Migrator::run is called.
StartRun ==
    /\ mig.pc = "created"
    /\ mig' = [mig EXCEPT !.pc = "loop", !.op = "run", !.i = 1]
    /\ UNCHANGED <<stack, dialect, panicked, dbVars, relVars, getVars, mutVars, termVars, bridgeVars, pureVars, groupVars, slot, mdb, log, made, createVars, schemaVars>>

\* Migrator::run, the head of the loop: return after the last migration, skip
\* a recorded one, otherwise begin and park the connection in MIGRATE_CONN.
RunStep ==
    /\ mig.pc = "loop"
    /\ mig.op = "run"
    /\ IF mig.i > Len(mig.migrations)
       THEN mig' = Return(OkUnit) /\ UNCHANGED <<slot, mdb, log>>
       ELSE IF IsRecorded(mig.state, CurrentMigration)
       THEN mig' = [mig EXCEPT !.i = @ + 1] /\ UNCHANGED <<slot, mdb, log>>
       ELSE \E fails \in BOOLEAN :
              /\ log' = Append(log, LogEntry("begin", CurrentMigration, mig.batch, ~fails))
              /\ mdb' = ConnExec(mdb, "begin", <<>>, fails)
              /\ IF fails
                 THEN mig' = Return(DatabaseError("begin")) /\ UNCHANGED slot
                 ELSE mig' = [mig EXCEPT !.pc = "parked"] /\ slot' = Some("connection")
    /\ UNCHANGED <<stack, dialect, panicked, dbVars, relVars, getVars, mutVars, termVars, bridgeVars, pureVars, groupVars, made, createVars, schemaVars>>

\* migration.up().await
MigrationUp ==
    /\ mig.pc = "parked"
    /\ mig.op = "run"
    /\ \E body \in UpBodies :
         /\ slot' = up(body, slot).slot
         /\ mig' = [mig EXCEPT !.pc = "after", !.upres = up(body, slot).res]
         /\ log' = Append(log, LogEntry("up", CurrentMigration, mig.batch, up(body, slot).res.ok))
    /\ UNCHANGED <<stack, dialect, panicked, dbVars, relVars, getVars, mutVars, termVars, bridgeVars, pureVars, groupVars, mdb, made, createVars, schemaVars>>

\* Migrator::run after up() returned: take the connection back, then roll
\* back and return up()'s error, or insertion the record, committing and go on.
\* failing: the statement the database refuses, if any.
AfterUp ==
    /\ mig.pc = "after"
    /\ mig.op = "run"
    /\ \E failing \in {"none", "rollback", "insert", "commit"} :
         IF ~slot.some
         THEN mig' = Return(LockError) /\ UNCHANGED <<slot, mdb, log>>
         ELSE /\ slot' = None
              /\ IF ~mig.upres.ok
                 THEN /\ log' = Append(log, LogEntry("rollback", CurrentMigration, mig.batch, failing # "rollback"))
                      /\ mdb' = ConnExec(mdb, "rollback", <<>>, failing = "rollback")
                      /\ mig' = Return(IF failing = "rollback" THEN DatabaseError("rollback")
                                         ELSE mig.upres)
                 ELSE LET row == StoredMigration(0, mig.batch, CurrentMigration)
                          insertion == LogEntry("insert", CurrentMigration, mig.batch, failing # "insert")
                          committing == LogEntry("commit", CurrentMigration, mig.batch, failing # "commit")
                      IN IF failing = "insert"
                         THEN /\ log' = Append(log, insertion)
                              /\ mdb' = mdb
                              /\ mig' = Return(DatabaseError("insert"))
                         ELSE IF failing = "commit"
                         THEN /\ log' = log \o <<insertion, committing>>
                              /\ mdb' = ConnExec(mdb, "insert", row, FALSE)
                              /\ mig' = Return(DatabaseError("commit"))
                         ELSE /\ log' = log \o <<insertion, committing>>
                              /\ mdb' = ConnExec(ConnExec(mdb, "insert", row, FALSE), "commit", <<>>, FALSE)
                              /\ mig' = [mig EXCEPT !.state = Append(@, row), !.i = @ + 1,
                                                    !.pc = "loop"]
    /\ UNCHANGED <<stack, dialect, panicked, dbVars, relVars, getVars, mutVars, termVars, bridgeVars, pureVars, groupVars, made, createVars, schemaVars>>

RECURSIVE Rev(_)
Rev(q) == IF q = <<>> THEN <<>> ELSE Append(Rev(Tail(q)), Head(q))

\* Migrator::rollback is called: the records of the last batches, newest first.
StartRollback ==
    /\ mig.pc = "created"
    /\ \E batches \in RollbackBatches :
         LET floor == IF mig.batch > batches THEN mig.batch - batches ELSE 0
         IN mig' = [mig EXCEPT !.pc = "loop", !.op = "rollback",
                               !.todo = Rev(SelectSeq(mig.state, LAMBDA m : m.batch >= floor))]
    /\ UNCHANGED <<stack, dialect, panicked, dbVars, relVars, getVars, mutVars, termVars, bridgeVars, pureVars, groupVars, slot, mdb, log, made, createVars, schemaVars>>

\* Migrator::rollback, the head of the loop: return after the last record,
\* fail for a record whose migration is not registered, otherwise begin and
\* park the connection in MIGRATE_CONN.
RollbackStep ==
    /\ mig.pc = "loop"
    /\ mig.op = "rollback"
    /\ IF mig.todo = <<>>
       THEN mig' = Return(OkUnit) /\ UNCHANGED <<slot, mdb, log>>
       ELSE IF ~\E k \in 1..Len(mig.migrations) : mig.migrations[k] = Head(mig.todo).migration
       THEN mig' = Return(NotFoundError(Head(mig.todo).migration)) /\ UNCHANGED <<slot, mdb, log>>
       ELSE \E fails \in BOOLEAN :
              /\ log' = Append(log, LogEntry("begin", Head(mig.todo).migration, mig.batch, ~fails))
              /\ mdb' = ConnExec(mdb, "begin", <<>>, fails)
              /\ IF fails
                 THEN mig' = Return(DatabaseError("begin")) /\ UNCHANGED slot
                 ELSE mig' = [mig EXCEPT !.pc = "parked"] /\ slot' = Some("connection")
    /\ UNCHANGED <<stack, dialect, panicked, dbVars, relVars, getVars, mutVars, termVars, bridgeVars, pureVars, groupVars, made, createVars, schemaVars>>

\* migration.down().await?
MigrationDown ==
    /\ mig.pc = "parked"
    /\ mig.op = "rollback"
    /\ \E ok \in BOOLEAN :
         /\ log' = Append(log, LogEntry("down", Head(mig.todo).migration, mig.batch, ok))
         /\ mig' = IF ok THEN [mig EXCEPT !.pc = "after"] ELSE Return(DatabaseError("down"))
    /\ UNCHANGED <<stack, dialect, panicked, dbVars, relVars, getVars, mutVars, termVars, bridgeVars, pureVars, groupVars, slot, mdb, made, createVars, schemaVars>>

\* Migrator::rollback after down() succeeded: take the connection back,
\* deletion the record, committing and go on.
AfterDown ==
    /\ mig.pc = "after"
    /\ mig.op = "rollback"
    /\ \E failing \in {"none", "delete", "commit"} :
         IF ~slot.some
         THEN mig' = Return(LockError) /\ UNCHANGED <<slot, mdb, log>>
         ELSE LET name == Head(mig.todo).migration
                  deletion == LogEntry("delete", name, mig.batch, failing # "delete")
                  committing == LogEntry("commit", name, mig.batch, failing # "commit")
              IN /\ slot' = None
                 /\ IF failing = "delete"
                    THEN /\ log' = Append(log, deletion)
                         /\ mdb' = mdb
                         /\ mig' = Return(DatabaseError("delete"))
                    ELSE IF failing = "commit"
                    THEN /\ log' = log \o <<deletion, committing>>
                         /\ mdb' = ConnExec(mdb, "delete", Head(mig.todo), FALSE)
                         /\ mig' = Return(DatabaseError("commit"))
                    ELSE /\ log' = log \o <<deletion, committing>>
                         /\ mdb' = ConnExec(ConnExec(mdb, "delete", Head(mig.todo), FALSE),
                                        "commit", <<>>, FALSE)
                         /\ mig' = [mig EXCEPT !.todo = Tail(@), !.pc = "loop"]
    /\ UNCHANGED <<stack, dialect, panicked, dbVars, relVars, getVars, mutVars, termVars, bridgeVars, pureVars, groupVars, made, createVars, schemaVars>>

\* The migrations table the first migrator finds: empty, or one migration of batch 1.
StoredTables ==
    { <<>>, <<StoredMigration(1, 1, MigrationNames[1])>> }

InitMigrate ==
    /\ dialect = "MySQL"
    /\ stack = <<new("users")>>
    /\ panicked = FALSE
    /\ IdleDb
    /\ IdleRel
    /\ IdleGet
    /\ IdleMut
    /\ IdleTerm
    /\ IdleBridge
    /\ IdleSchema
    /\ IdleCreate
    /\ IdlePure
    /\ IdleGroup
    /\ mig = NoMigrator
    /\ slot = None
    /\ \E rows \in StoredTables : mdb = [rows |-> rows, work |-> rows, open |-> FALSE]
    /\ log = <<>>
    /\ made = 0

NextMigrate ==
    \/ MigratorNew
    \/ MigratorRegister
    \/ StartRun
    \/ RunStep
    \/ MigrationUp
    \/ AfterUp
    \/ StartRollback
    \/ RollbackStep
    \/ MigrationDown
    \/ AfterDown

SpecMigrate == InitMigrate /\ [][NextMigrate]_vars

\* The names held by a list of stored migrations.
StoredNames(state) == { state[k].migration : k \in 1..Len(state) }

\* C23: run calls up() for the registered migrations that were not recorded,
\* in registration order; every up() directly follows a successful begin and
\* runs with the connection parked; once run has gone past an up() that
\* succeeded it has issued the insert of the record with the current batch
\* and, the insert accepted, the commit; once it has gone past an up() that
\* failed it has issued a rollback and nothing else, has returned (up()'s
\* error, the rollback accepted) and has inserted no record for that migration.
C23_RunFollowsProtocol ==
    (mig.pc # "none" /\ mig.op = "run") =>
        LET ups == SelectSeq(log, LAMBDA e : e.op = "up")
            todo == SelectSeq(mig.migrations, LAMBDA name : name \notin StoredNames(mig.loaded))
        IN /\ Len(ups) <= Len(todo)
           /\ \A k \in 1..Len(ups) : ups[k].name = todo[k]
           /\ mig.pc = "parked" => slot.some
           /\ \A k \in 1..Len(log) :
                log[k].op = "up" =>
                  /\ k > 1
                  /\ log[k - 1] = LogEntry("begin", log[k].name, mig.batch, TRUE)
                  /\ (k < Len(log) \/ mig.pc # "after") =>
                       IF log[k].ok
                       THEN /\ k + 1 <= Len(log)
                            /\ log[k + 1].op = "insert"
                            /\ log[k + 1].name = log[k].name
                            /\ log[k + 1].batch = mig.batch
                            /\ log[k + 1].ok => (k + 2 <= Len(log) /\ log[k + 2].op = "commit")
                       ELSE /\ Len(log) = k + 1
                            /\ log[k + 1].op = "rollback"
                            /\ mig.pc = "returned"
                            /\ log[k + 1].ok => mig.res = mig.upres
                            /\ log[k].name \notin StoredNames(mdb.work)

\* C24: whenever run or rollback has returned, MIGRATE_CONN is empty and no
\* transaction the migrator began is still open.
C24_ExitsLeaveNothingBehind ==
    (mig.pc = "returned" /\ mig.op \in {"run", "rollback"}) => (~slot.some /\ ~mdb.open)

\* C25: up() is only ever called for a migration that is not in the recorded
\* state, and not a second time by the same migrator; a migrator created
\* after a run that returned Ok, with the same registrations, calls no up();
\* and when a run returns Ok every registered migration is in the migrations
\* table, so that such a migrator has nothing pending.
C25_RunIsIdempotent ==
    [][/\ MigrationUp =>
            /\ CurrentMigration \notin StoredNames(mig.state)
            /\ CurrentMigration \notin StoredNames(mig.loaded)
            /\ \A k \in 1..Len(log) : ~(log[k].op = "up" /\ log[k].name = CurrentMigration)
            /\ ~(mig.previous.op = "run" /\ mig.previous.ok
                 /\ mig.previous.registered = mig.migrations)
       /\ (mig'.pc = "returned" /\ mig'.op = "run" /\ mig'.res.ok) =>
            /\ \A k \in 1..Len(mig'.migrations) : mig'.migrations[k] \in StoredNames(mdb'.rows)
            /\ ~mdb'.open
       /\ (mig'.pc = "created" /\ mig'.previous.op = "run" /\ mig'.previous.ok
           /\ mig'.migrations = mig'.previous.registered) =>
            \A k \in 1..Len(mig'.migrations) : mig'.migrations[k] \in StoredNames(mig'.state)]_vars

\* The second migrator, over the same two registrations as the first whose
\* run succeeded and ran a migration, has returned Ok without a statement or an up().
C25_Witness ==
    /\ made = 2
    /\ mig.pc = "returned"
    /\ mig.op = "run"
    /\ mig.res.ok
    /\ mig.previous.op = "run"
    /\ mig.previous.ok
    /\ mig.previous.registered = mig.migrations
    /\ Len(mig.migrations) = 2
    /\ Len(mdb.rows) = 2
    /\ mig.batch = 2
    /\ log = <<>>

\* ------------------------------------------------------------------------
\* Model::create as the derive macro generates it
\* ------------------------------------------------------------------------
\* One field of a model struct with its #[model(...)] and #[validate(...)] attributes.
ModelField(ident, ty, attr) ==
    [ident |-> ident, ty |-> ty,
     value |-> attr = "default", uuid |-> attr = "uuid",
     incrementing |-> IF attr = "incrementing = false" THEN Some(FALSE) ELSE None,
     created_at |-> attr = "created_at", updated_at |-> attr = "updated_at",
     has_validation |-> attr = "validate"]

\* The model structs: fields in declaration order, the primary key first.
\* struct Account { id: u64, name: String, #[validate(email)] email: String,
\*                  #[model(default = 18)] age: u8, #[model(uuid)] token: Uuid,
\*                  #[model(created_at)] created_at: DateTime,
\*                  #[model(updated_at)] updated_at: DateTime, posts: HasMany<Account, Post> }
\* struct Tag { slug: String (primary), label: String }
\* struct Counter { #[model(incrementing = false)] id: u64, hits: u64 }
CreateModels ==
    [Account |-> << ModelField("id", "u64", ""), ModelField("name", "String", ""),
                    ModelField("email", "String", "validate"), ModelField("age", "u8", "default"),
                    ModelField("token", "Uuid", "uuid"),
                    ModelField("created_at", "DateTime", "created_at"),
                    ModelField("updated_at", "DateTime", "updated_at"),
                    ModelField("posts", "HasMany", "") >>,
     Tag |-> << ModelField("slug", "String", ""), ModelField("label", "String", "") >>,
     Counter |-> << ModelField("id", "u64", "incrementing = false"),
                    ModelField("hits", "u64", "") >>]

\* <ty>::default() and another value of each type.
TypeDefault ==
    [u64 |-> "0", u8 |-> "0", String |-> "", Uuid |-> "00000000-0000-0000-0000-000000000000",
     DateTime |-> "1970-01-01", HasMany |-> "not loaded"]
TypeSamples ==
    [u64 |-> {"7"}, u8 |-> {"7"}, String |-> {"x", "a@b.c"}, Uuid |-> {"67e55044-10b1-426f-9247-bb680e5fe0c8"},
     DateTime |-> {"2023-01-01"}, HasMany |-> {}]

\* Field::relationship: the field's type is one of the relationship types.
IsRelationship(f) == f.ty \in {"HasOne", "HasMany", "BelongsTo", "BelongsToMany"}

\* Variant: the uuid attribute gives no default.
Field_default_WithoutUuid(f, primary_key) ==
    LET is_primary == primary_key.ident = f.ident
        is_u64 == f.ty = "u64"
    IN IF f.value THEN Some("value")
       ELSE IF IF f.incrementing.some THEN f.incrementing.v ELSE is_primary /\ is_u64
       THEN Some("0")
       ELSE IF f.created_at \/ f.updated_at THEN Some("now")
       ELSE IF IsRelationship(f) THEN Some("build")
       ELSE None

\* Field::default: the default expression of the field, if it has one.
Field_default(f, primary_key) ==
    LET is_primary == primary_key.ident = f.ident
        is_u64 == f.ty = "u64"
    IN IF f.value THEN Some("value")
       ELSE IF f.uuid THEN Some("new_v4")
       ELSE IF IF f.incrementing.some THEN f.incrementing.v ELSE is_primary /\ is_u64
       THEN Some("0")
       ELSE IF f.created_at \/ f.updated_at THEN Some("now")
       ELSE IF IsRelationship(f) THEN Some("build")
       ELSE None

\* Fields::should_validate
should_validate(fields) == \E k \in 1..Len(fields) : fields[k].has_validation

\* self.validate(): the rule of the validated fields (an e-mail address).
validate(fields, instance) ==
    \A k \in 1..Len(fields) : fields[k].has_validation => instance[fields[k].ident] = "a@b.c"

RequiredError(ident) == Err([kind |-> "Required", field |-> ident])
ValidationError == Err([kind |-> "Validation", field |-> ""])

\* The generated create: timestamps, validation, required fields, insert.
\* answer: what the insert meets (no connection, a refusal, or the new key).
create(fields, instance, answer) ==
    LET primary_key == fields[1]
        stamped == [ident \in DOMAIN instance |->
                      IF \E k \in 1..Len(fields) :
                            fields[k].ident = ident /\ (fields[k].created_at \/ fields[k].updated_at)
                      THEN "now" ELSE instance[ident]]
        required == SelectSeq(fields, LAMBDA f : ~Field_default(f, primary_key).some)
        missing == SelectSeq(required, LAMBDA f : stamped[f.ident] = TypeDefault[f.ty])
        validated == IF should_validate(fields) THEN <<"validation">> ELSE <<>>
        incrementing == IF primary_key.incrementing.some THEN primary_key.incrementing.v
                        ELSE primary_key.ty = "u64"
    IN IF should_validate(fields) /\ ~validate(fields, stamped)
       THEN [steps |-> <<"timestamps", "validation">>, res |-> ValidationError,
             instance |-> stamped, statements |-> <<>>]
       ELSE IF missing # <<>>
       THEN [steps |-> <<"timestamps">> \o validated \o <<"required">>,
             res |-> RequiredError(missing[1].ident), instance |-> stamped, statements |-> <<>>]
       ELSE [steps |-> <<"timestamps">> \o validated \o <<"required", "insert">>,
             res |-> CASE answer = "no connection" -> Err([kind |-> "Connection", field |-> ""])
                       [] answer = "refused" -> Err([kind |-> "Database", field |-> ""])
                       [] OTHER -> Ok("self"),
             instance |-> IF answer = "ok" /\ incrementing
                          THEN [stamped EXCEPT ![primary_key.ident] = "41"] ELSE stamped,
             statements |-> IF answer = "no connection" THEN <<>> ELSE <<"INSERT">>]

RECURSIVE Instances(_)
\* The instances create is called on: every field at its type's default or at another value.
Instances(fields) ==
    IF fields = <<>> THEN { <<>> }
    ELSE { (Head(fields).ident :> v) @@ rest :
             v \in TypeSamples[Head(fields).ty] \cup {TypeDefault[Head(fields).ty]},
             rest \in Instances(Tail(fields)) }

\* Model::create
ModelCreate ==
    /\ ~creation.done
    /\ \E model \in DOMAIN CreateModels :
         \E instance \in Instances(CreateModels[model]), answer \in {"ok", "refused", "no connection"} :
            creation' = [done |-> TRUE, model |-> model, given |-> instance,
                        call |-> create(CreateModels[model], instance, answer)]
    /\ UNCHANGED <<stack, dialect, panicked, dbVars, relVars, getVars, mutVars, termVars, bridgeVars, pureVars, groupVars, migVars, schemaVars>>

InitCreate ==
    /\ dialect = "MySQL"
    /\ stack = <<new("users")>>
    /\ panicked = FALSE
    /\ Idle

NextCreate == ModelCreate

SpecCreate == InitCreate /\ [][NextCreate]_vars

\* The steps of create in their order.
CreateOrder == <<"timestamps", "validation", "required", "insert">>
Position(step) == CHOOSE k \in 1..Len(CreateOrder) : CreateOrder[k] = step

\* A field without a default, in the words of the claim.
HasNoDefault(f, primary_key) ==
    /\ ~f.value
    /\ ~(f.ident = primary_key.ident
         /\ (IF f.incrementing.some THEN f.incrementing.v ELSE f.ty = "u64"))
    /\ ~f.uuid
    /\ ~(f.created_at \/ f.updated_at)
    /\ ~IsRelationship(f)

MaxCalls == 2

\* The two kinds of Schemable, told apart by the place of their creation.
ColumnPart(n) == [id |-> n, part |-> "Column"]
CommandPart(n) == [id |-> n, part |-> "Command"]
IsColumnPart(p) == p.part = "Column"
IsCommandPart(p) == p.part = "Command"

\* The Sender handles alive: one per value not yet dropped, plus the table's own.
Senders(s) == Cardinality(s.live) + (IF s.sender THEN 1 ELSE 0)

\* mpsc::Sender::send(..).unwrap(): fails, and panics, only when the receiver is gone.
channel_send(s, part) ==
    IF s.worker = "ended" THEN [s EXCEPT !.pc = "panicked"]
    ELSE [s EXCEPT !.queue = Append(@, part)]

\* Drop for Column and Drop for ForeignIndex: take the handle, send the
\* value through it, drop the handle.
Schemable_drop(s, value) ==
    LET taken == [s EXCEPT !.live = @ \ {value}]
    IN  channel_send(taken, value)

\* The next value created by a Table method holds a clone of table.sender.
Created(s, part, held) ==
    [s EXCEPT !.created = Append(@, part),
              !.live = IF held THEN @ \cup {part} ELSE @]

StartSchema ==
    [pc |-> "callback", worker |-> "recv", calls |-> 0, created |-> <<>>,
     live |-> {}, sender |-> TRUE, queue |-> <<>>, schema |-> <<>>,
     result |-> [columns |-> <<>>, commands |-> <<>>]]

\* Table::string, integer, json, ...: a Column handed to the callback.
TableColumn ==
    /\ sch.pc = "callback" /\ sch.calls < MaxCalls
    /\ sch' = [Created(sch, ColumnPart(Len(sch.created) + 1), TRUE) EXCEPT !.calls = @ + 1]
    /\ UNCHANGED <<stack, dialect, panicked, dbVars, relVars, getVars, mutVars, termVars, bridgeVars, pureVars, groupVars, migVars, createVars>>

\* Table::foreign: a ForeignIndex handed to the callback.
TableForeign ==
    /\ sch.pc = "callback" /\ sch.calls < MaxCalls
    /\ sch' = [Created(sch, CommandPart(Len(sch.created) + 1), TRUE) EXCEPT !.calls = @ + 1]
    /\ UNCHANGED <<stack, dialect, panicked, dbVars, relVars, getVars, mutVars, termVars, bridgeVars, pureVars, groupVars, migVars, createVars>>

\* Table::foreign_id: the column is created and dropped inside the method,
\* the index created after it is handed to the callback.
TableForeignId ==
    /\ sch.pc = "callback" /\ sch.calls < MaxCalls
    /\ LET n == Len(sch.created)
           column == Created(sch, ColumnPart(n + 1), TRUE)
           index == Created(column, CommandPart(n + 2), TRUE)
       IN  sch' = [Schemable_drop(index, ColumnPart(n + 1)) EXCEPT !.calls = @ + 1]
    /\ UNCHANGED <<stack, dialect, panicked, dbVars, relVars, getVars, mutVars, termVars, bridgeVars, pureVars, groupVars, migVars, createVars>>

\* Table::drop_column: the command goes straight through table.sender.
TableDropColumn ==
    /\ sch.pc = "callback" /\ sch.calls < MaxCalls
    /\ LET command == CommandPart(Len(sch.created) + 1)
       IN  sch' = [channel_send(Created(sch, command, FALSE), command) EXCEPT !.calls = @ + 1]
    /\ UNCHANGED <<stack, dialect, panicked, dbVars, relVars, getVars, mutVars, termVars, bridgeVars, pureVars, groupVars, migVars, createVars>>

\* A value leaves scope: at the end of its statement, at the end of the
\* block that bound it, or wherever its owner lets go of it.
ValueDrop ==
    /\ sch.pc \in {"callback", "returned", "join"}
    /\ \E value \in sch.live : sch' = Schemable_drop(sch, value)
    /\ UNCHANGED <<stack, dialect, panicked, dbVars, relVars, getVars, mutVars, termVars, bridgeVars, pureVars, groupVars, migVars, createVars>>

\* callback(&mut table) returns.
CallbackReturn ==
    /\ sch.pc = "callback"
    /\ sch' = [sch EXCEPT !.pc = "returned"]
    /\ UNCHANGED <<stack, dialect, panicked, dbVars, relVars, getVars, mutVars, termVars, bridgeVars, pureVars, groupVars, migVars, createVars>>

\* drop(table.sender.take())
DropSender ==
    /\ sch.pc = "returned"
    /\ sch' = [sch EXCEPT !.pc = "join", !.sender = FALSE]
    /\ UNCHANGED <<stack, dialect, panicked, dbVars, relVars, getVars, mutVars, termVars, bridgeVars, pureVars, groupVars, migVars, createVars>>

\* The collector: while let Ok(part) = rx.recv() { schema.push(part) }
CollectorRecv ==
    /\ sch.worker = "recv" /\ sch.queue # <<>>
    /\ sch' = [sch EXCEPT !.schema = Append(@, Head(sch.queue)), !.queue = Tail(@)]
    /\ UNCHANGED <<stack, dialect, panicked, dbVars, relVars, getVars, mutVars, termVars, bridgeVars, pureVars, groupVars, migVars, createVars>>

\* rx.recv() is Err once the channel is empty and no Sender is left: the
\* loop ends and the thread returns what it collected.
CollectorEnd ==
    /\ sch.worker = "recv" /\ sch.queue = <<>> /\ Senders(sch) = 0
    /\ sch' = [sch EXCEPT !.worker = "ended"]
    /\ UNCHANGED <<stack, dialect, panicked, dbVars, relVars, getVars, mutVars, termVars, bridgeVars, pureVars, groupVars, migVars, createVars>>

\* ret.join(), then the partition into columns and commands.
partition_map(schema) ==
    [columns |-> SelectSeq(schema, IsColumnPart), commands |-> SelectSeq(schema, IsCommandPart)]

ThreadJoin ==
    /\ sch.pc = "join" /\ sch.worker = "ended"
    /\ sch' = [sch EXCEPT !.pc = "done", !.result = partition_map(sch.schema)]
    /\ UNCHANGED <<stack, dialect, panicked, dbVars, relVars, getVars, mutVars, termVars, bridgeVars, pureVars, groupVars, migVars, createVars>>

InitSchema ==
    /\ dialect = "MySQL"
    /\ stack = <<new("users")>>
    /\ panicked = FALSE
    /\ IdleDb /\ IdleRel /\ IdleGet /\ IdleMut /\ IdleTerm /\ IdleBridge /\ IdlePure /\ IdleGroup /\ IdleMig /\ IdleCreate
    /\ sch = StartSchema

NextSchema ==
    \/ TableColumn \/ TableForeign \/ TableForeignId \/ TableDropColumn
    \/ ValueDrop \/ CallbackReturn \/ DropSender
    \/ CollectorRecv \/ CollectorEnd \/ ThreadJoin

SpecSchema == InitSchema /\ [][NextSchema]_vars

\* Both threads are live operating-system threads: a step that stays
\* possible for one of them is taken.  Nothing forces the callback to
\* return or a value to be dropped.
SpecSchemaLive ==
    /\ SpecSchema
    /\ WF_vars(DropSender) /\ WF_vars(ThreadJoin)
    /\ WF_vars(CollectorRecv) /\ WF_vars(CollectorEnd)

\* The callback has returned and every value created in it has been dropped.
CallbackOver == sch.pc \in {"returned", "join"} /\ sch.live = {}

\* get_schema returns once the callback is over.
SchemaTerminates == CallbackOver ~> (sch.pc = "done")

\* How often a part occurs in a list.
Occurrences(part, list) == Cardinality({k \in 1..Len(list) : list[k] = part})

\* The returned lists hold every created part once and nothing else.
SchemaNoneLostOrDuplicated ==
    sch.pc = "done" =>
        LET returned == sch.result.columns \o sch.result.commands
        IN  /\ \A k \in 1..Len(sch.created) : Occurrences(sch.created[k], returned) = 1
            /\ Len(returned) = Len(sch.created)

\* The returned lists are in the order of the sends, which is the order of the drops.
SchemaInSendOrder ==
    sch.pc = "done" => sch.result = partition_map(sch.schema)

\* The returned lists are in the order of creation.
SchemaInCreationOrder ==
    sch.pc = "done" => sch.result = partition_map(sch.created)

\* C29: Schema::get_schema returns once the callback has returned and every
\* value created in it has been dropped, and the lists it returns hold every
\* column and every command created in the callback exactly once, in the
\* order of their creation.
C29_GetSchemaCollectsInCreationOrder ==
    /\ SchemaTerminates
    /\ []SchemaNoneLostOrDuplicated
    /\ []SchemaInCreationOrder

====
